---- MODULE Spec2Model ----
(***************************************************************************)
(* Setpoint delivery of the Smart Heating Optimizer integration.           *)
(*                                                                         *)
(* Two components receive optimizer commands and write them to the climate *)
(* entities (actuators) of the zones:                                      *)
(*   - SmartHeatingMQTTHandler (mqtt_handler.py), the push channel;        *)
(*   - SmartHeatingCoordinator (__init__.py), the poll channel, which also *)
(*     owns boost.                                                         *)
(* Both run on one asyncio event loop: a callback or a task runs without   *)
(* interleaving up to its next await; the awaits that suspend are the      *)
(* blocking climate.set_temperature service call and the HTTP request.     *)
(***************************************************************************)
EXTENDS Integers, Sequences, FiniteSets, Bags, TLC

\* ------------------------------------------------------------------ bounds
\* The clock runs over 0..MaxTime.
MaxTime == 2
\* Commands received in one behaviour, push and poll together.
MaxCommands == 2
\* Boost calls in one behaviour.
MaxBoosts == 1
\* async_set_away_mode calls in one behaviour.
MaxAwayCalls == 3
\* The times 0..MaxEvalTime at which a validity window is looked at alone.
MaxEvalTime == 4
MaxStackedBoosts == 2

\* ------------------------------------------------------------ value domains
Zones == {"z1", "z2"}
\* A zone id no configuration knows.
UnknownZone == "zx"
\* temperature_c values the optimizer sends.
Temps == {19, 21}
\* None, for an absent valid_from / valid_until / boost_until.
NoTime == -1
\* valid_from and valid_until of the commands the optimizer sends.
ValidFroms == {NoTime, 2}
ValidUntils == {NoTime, 1}
\* <<valid_from, valid_until>> of the setpoints of a telemetry response:
\* no window, starting later, ended.
PollWindows == {<<NoTime, NoTime>>, <<2, NoTime>>, <<NoTime, 1>>}
\* Boost parameters of the boost service and the boost buttons.
BoostDurations == {2}
BoostDeltas == {2}
\* What the thermostats show at start.
InitialTemps == {18}
\* Number of setpoints in one telemetry response.
BatchSizes == 0..2
\* The order of the zones in the coordinator's list.
ZoneOrder == <<"z1", "z2">>
\* zone.get("min_temp_c", 16.0) and zone.get("target_temp_c", 20.0) of a
\* zone that configures neither.
MinTemp == 16
TargetTemp == 20
\* A temperature that is not there: a zone without an entry in
\* _saved_setpoints, a payload without temperature_c.
NoTemp == 0
\* What the thermostats show before away mode is used.
AwayInitialTemps == {18, 21}

\* A command: SetpointCommand on the push channel, the setpoint dict of the
\* telemetry response on the poll channel.  id is the order of receipt, src
\* the channel, cid the command_id (0 when absent).
Commands ==
    [id : 1..MaxCommands, zone : Zones \cup {UnknownZone}, temp : Temps,
     vf : ValidFroms, vu : ValidUntils, src : {"push", "poll"},
     cid : 0..MaxCommands]

\* The absent entry of a dict keyed by zone.
NoCmd ==
    [id |-> 0, zone |-> "none", temp |-> 0, vf |-> NoTime, vu |-> NoTime,
     src |-> "none", cid |-> 0]

VARIABLES
    now,               \* dt_util.utcnow() / datetime.utcnow()
    nextId,            \* order of receipt of the next command
    actuator,          \* hass.states of the zone's climate entity
    \* SmartHeatingMQTTHandler
    subscribed,        \* _unsubscribe is not None
    subscribe_returned,  \* what the last async_subscribe call returned
    handler_zones,     \* _zones
    pending_setpoints, \* _pending_setpoints
    scheduled_unsubs,  \* _scheduled_unsubs: zone -> id of the timer's command
    timers,            \* the live async_track_point_in_time timers
    applied_setpoints, \* _applied_setpoints
    ready,             \* tasks made by async_create_task, not yet started
    inflight,          \* tasks suspended in the blocking service call
    \* SmartHeatingCoordinator
    zones,             \* _zones
    boost_until,       \* _boost_until
    coord_applied_setpoints, \* _applied_setpoints
    poll,              \* the async_send_telemetry coroutine
    boost,             \* the async_boost_zone coroutine
    \* remote optimizer
    acks,              \* acknowledgments received by the optimizer
    nBoosts,           \* boost calls made so far
    away_mode,         \* _away_mode
    away_mode_since,   \* _away_mode_since
    saved_setpoints,   \* _saved_setpoints
    away_calls,        \* the async_set_away_mode coroutines
    \* history of the commands
    lastReceived,      \* zone -> id of the last push message taken for the zone
    issued,            \* commands for which the service call was made
    written,           \* commands whose service call returned
    lastWritten,       \* zone -> command of the last service call that returned
    superseded,        \* scheduled commands that met a valid command
    armed,             \* commands that were given a timer
    fetched,           \* setpoints the telemetry responses carried
    \* history of away mode
    awayLog,           \* the argument of each async_set_away_mode call
    beforeAway,        \* the thermostats when away mode was last switched on
    awayClean,         \* no failed write and no overlapping call since then
    \* a validity window looked at alone
    eval,              \* a command's window, the time, and what is done with it
    \* the telemetry sender of the coordinator
    telemetry_unsub,   \* _telemetry_unsub is not None
    telemetry_timer,   \* how many async_track_time_interval trackers are live
    poll_period,       \* the interval the tracker was armed with, in seconds
    suggested,         \* the interval the last telemetry response suggested
    pollBy,            \* what started the running async_send_telemetry
    \* the event bus
    events,            \* the bag of the setpoint_applied events fired
    \* history of the payloads
    malformed          \* ids of the messages whose payload does not parse

vars ==
    <<now, nextId, actuator, subscribed, subscribe_returned, handler_zones,
      pending_setpoints,
      scheduled_unsubs, timers, applied_setpoints, ready, inflight, zones,
      boost_until, coord_applied_setpoints, poll, boost, acks, nBoosts,
      lastReceived, issued, written, lastWritten, superseded, armed, fetched,
      away_mode, away_mode_since, saved_setpoints, away_calls, awayLog,
      beforeAway, awayClean, eval, telemetry_unsub, telemetry_timer,
      poll_period, suggested, pollBy, events, malformed>>

handlerVars ==
    <<subscribed, subscribe_returned, handler_zones, pending_setpoints,
      scheduled_unsubs, timers, applied_setpoints, ready, inflight>>

coordVars ==
    <<zones, boost_until, coord_applied_setpoints, poll, boost, acks, nBoosts>>

histVars == <<lastReceived, issued, written, lastWritten, superseded, armed, fetched>>

awayVars ==
    <<away_mode, away_mode_since, saved_setpoints, away_calls, awayLog,
      beforeAway, awayClean>>

telemetryVars ==
    <<telemetry_unsub, telemetry_timer, poll_period, suggested, pollBy>>

\* What a command write leaves alone.
quietVars == <<awayVars, eval, telemetryVars, malformed>>

\* What the operations of the command channels and of boost leave alone.
restVars == <<quietVars, events>>

\* What away mode leaves alone besides the command channels and boost.
awayRest == <<eval, telemetryVars, events, malformed>>

\* ------------------------------------------------------------ pure helpers

\* SetpointCommand.is_valid_now
is_valid_now(c, t) ==
    IF c.vf # NoTime /\ t < c.vf THEN FALSE
    ELSE IF c.vu # NoTime /\ t > c.vu THEN FALSE
    ELSE TRUE

\* A faulty is_boosted that holds as long as the zone has an entry.
is_boostedWhileEntry(z, t) == boost_until[z] # NoTime

\* SmartHeatingCoordinator.is_boosted
is_boosted(z, t) ==
    IF boost_until[z] = NoTime THEN FALSE ELSE t < boost_until[z]

\* The live timers of a zone.
TimersOf(z) == {c \in timers : c.zone = z}

\* A faulty cancel that stops the timers of every zone.
CancelEveryHandle(z) == {}

\* unsub() of the handle stored for a zone: cancels that timer if it is live.
CancelHandle(z) == {c \in timers : ~(c.zone = z /\ c.id = scheduled_unsubs[z])}

\* A zone entry of the handler's _zones dict.
HandlerZoneCfgs == [auto_control : BOOLEAN, climate : BOOLEAN]

\* A zone entry of the coordinator's _zones list; present is FALSE for a
\* zone the list does not hold.
AbsentZone == [present |-> FALSE, auto_control_enabled |-> FALSE, climate |-> FALSE]
CoordZoneCfgs ==
    {AbsentZone} \cup
    [present : {TRUE}, auto_control_enabled : BOOLEAN, climate : BOOLEAN]

\* The dicts update_zones is called with.
HandlerZoneDicts ==
    [Zones -> {c \in HandlerZoneCfgs : c.climate}]

\* The zone lists get_zones returns.
ApiZoneLists ==
    [Zones -> {c \in CoordZoneCfgs : c.present /\ c.climate}]

\* An async_set_away_mode coroutine that is not running.
IdleCall == [pc |-> "idle", enabled |-> FALSE, queue |-> <<>>, temp |-> 0]

\* The state of away mode after construction.
InitAway ==
    /\ away_mode = FALSE
    /\ away_mode_since = NoTime
    /\ saved_setpoints = [z \in Zones |-> NoTemp]
    /\ away_calls = [k \in 1..MaxAwayCalls |-> IdleCall]
    /\ awayLog = <<>>
    /\ beforeAway = [z \in Zones |-> NoTemp]
    /\ awayClean = FALSE

\* TELEMETRY_INTERVAL of const.py, in seconds.
TELEMETRY_INTERVAL == 300
\* No interval: no tracker was armed, no response was received.
NoInterval == 0
\* The next-poll intervals a telemetry response can suggest, in seconds.
SuggestedIntervals == {60}

\* The telemetry sender after construction.
InitTelemetry ==
    /\ telemetry_unsub = FALSE
    /\ telemetry_timer = 0
    /\ poll_period = NoInterval
    /\ suggested = NoInterval
    /\ pollBy = "none"

\* The telemetry sender after async_setup_entry called
\* start_telemetry_sender and the initial telemetry was answered.
InitTelemetryStarted ==
    /\ telemetry_unsub = TRUE
    /\ telemetry_timer = 1
    /\ poll_period = TELEMETRY_INTERVAL
    /\ suggested \in SuggestedIntervals
    /\ pollBy = "none"

\* The temperature plays no part in scheduling: one value is sent.
LiveTemps == {21}

\* data.get("temperature_c", 20.0)
DefaultTemp == 20
\* An absent or empty valid_from / valid_until.
NoText == ""
\* Texts of valid_from / valid_until that are ISO datetimes, and all texts
\* a payload carries there.
IsoTexts == {"T1", "T2"}
TimeTexts == IsoTexts \cup {NoText, "soon"}
\* The payloads of the messages: json is FALSE for a payload json.loads
\* rejects; temperature_c is NoTemp when the key is absent.
Payloads ==
    [json : BOOLEAN, temperature_c : LiveTemps \cup {NoTemp},
     valid_from : TimeTexts, valid_until : TimeTexts]

\* No window is looked at.
NoEval == [vf |-> NoTime, vu |-> NoTime, ref |-> 0, out |-> "unset"]

\* The state of the remaining parts after construction.
InitRest ==
    /\ eval = NoEval
    /\ InitTelemetry
    /\ events = EmptyBag
    /\ malformed = {}

\* The remaining parts once the entry is set up.
InitRestRunning ==
    /\ eval = NoEval
    /\ InitTelemetryStarted
    /\ events = EmptyBag
    /\ malformed = {}

\* ------------------------------------------------------------------- Init
Init ==
    /\ now = 0
    /\ nextId = 1
    /\ actuator \in [Zones -> InitialTemps]
    /\ subscribed = FALSE
    /\ subscribe_returned = "none"
    /\ handler_zones = [z \in Zones |-> [auto_control |-> TRUE, climate |-> TRUE]]
    /\ pending_setpoints = [z \in Zones |-> NoCmd]
    /\ scheduled_unsubs = [z \in Zones |-> 0]
    /\ timers = {}
    /\ applied_setpoints = [z \in Zones |-> NoCmd]
    /\ ready = <<>>
    /\ inflight = {}
    /\ zones = [z \in Zones |-> AbsentZone]
    /\ boost_until = [z \in Zones |-> NoTime]
    /\ coord_applied_setpoints = [z \in Zones |-> NoCmd]
    /\ poll = [pc |-> "idle", queue |-> <<>>]
    /\ boost = [pc |-> "idle", queue |-> <<>>, delta |-> 0, duration |-> 0, temp |-> 0]
    /\ acks = <<>>
    /\ nBoosts = 0
    /\ lastReceived = [z \in Zones |-> 0]
    /\ issued = {}
    /\ written = {}
    /\ lastWritten = [z \in Zones |-> NoCmd]
    /\ superseded = {}
    /\ armed = {}
    /\ fetched = {}
    /\ InitAway
    /\ InitRest

\* ------------------------------------------------------------ environment

\* Time passes.
Tick ==
    /\ now < MaxTime
    /\ now' = now + 1
    /\ UNCHANGED <<nextId, actuator, handlerVars, coordVars, histVars>>
    /\ UNCHANGED restVars

\* ------------------------------------------------- SmartHeatingMQTTHandler

\* A faulty async_subscribe that counts as subscribed whatever the outcome.
AsyncSubscribeIgnoresFailure(ok) ==
    /\ ~subscribed
    /\ subscribed' = TRUE
    /\ subscribe_returned' = (IF ok THEN "True" ELSE "False")
    /\ UNCHANGED <<now, nextId, actuator, handler_zones, pending_setpoints,
                   scheduled_unsubs, timers, applied_setpoints, ready, inflight,
                   coordVars, histVars>>
    /\ UNCHANGED restVars

\* async_subscribe: the broker client is there and subscribe succeeds (ok),
\* or not.
AsyncSubscribe(ok) ==
    /\ ~subscribed
    /\ subscribed' = ok
    /\ subscribe_returned' = (IF ok THEN "True" ELSE "False")
    /\ UNCHANGED <<now, nextId, actuator, handler_zones, pending_setpoints,
                   scheduled_unsubs, timers, applied_setpoints, ready, inflight,
                   coordVars, histVars>>
    /\ UNCHANGED restVars

\* async_unsubscribe: drops the subscription if there is one, cancels
\* every stored handle and clears the dict of handles.
AsyncUnsubscribe ==
    /\ subscribed' = FALSE
    /\ timers' = {c \in timers : c.id # scheduled_unsubs[c.zone]}
    /\ scheduled_unsubs' = [z \in Zones |-> 0]
    /\ UNCHANGED <<now, nextId, actuator, subscribe_returned, handler_zones,
                   pending_setpoints, applied_setpoints, ready, inflight,
                   coordVars, histVars>>
    /\ UNCHANGED restVars

\* A faulty _handle_setpoint_message that does not look the zone up.
HandleParsedAnyZone(z, temp, vf, vu) ==
    /\ subscribed
    /\ nextId <= MaxCommands
    /\ nextId' = nextId + 1
    /\ LET c == [id |-> nextId, zone |-> z, temp |-> temp, vf |-> vf, vu |-> vu,
                 src |-> "push", cid |-> 0]
       IN  /\ lastReceived' = (IF z \in Zones
                               THEN [lastReceived EXCEPT ![z] = c.id]
                               ELSE lastReceived)
           /\ ready' = Append(ready,
                  [kind |-> "process", cmd |-> c, climate |-> TRUE])
    /\ UNCHANGED <<now, actuator, subscribed, subscribe_returned,
                   handler_zones, pending_setpoints,
                   scheduled_unsubs, timers, applied_setpoints, inflight,
                   coordVars, issued, written, lastWritten, superseded, armed,
                   fetched>>

\* _handle_setpoint_message once the payload is parsed.  An unknown zone
\* and a zone with auto_control off are dropped; otherwise a
\* _process_setpoint task is created with the zone's config dict.
HandleParsed(z, temp, vf, vu) ==
    /\ subscribed
    /\ nextId <= MaxCommands
    /\ nextId' = nextId + 1
    /\ LET c == [id |-> nextId, zone |-> z, temp |-> temp, vf |-> vf, vu |-> vu,
                 src |-> "push", cid |-> 0]
       IN  IF z \notin Zones
           THEN UNCHANGED <<ready, lastReceived>>
           ELSE IF ~handler_zones[z].auto_control
           THEN UNCHANGED <<ready, lastReceived>>
           ELSE /\ lastReceived' = [lastReceived EXCEPT ![z] = c.id]
                /\ ready' = Append(ready,
                       [kind |-> "process", cmd |-> c,
                        climate |-> handler_zones[z].climate])
    /\ UNCHANGED <<now, actuator, subscribed, subscribe_returned,
                   handler_zones, pending_setpoints,
                   scheduled_unsubs, timers, applied_setpoints, inflight,
                   coordVars, issued, written, lastWritten, superseded, armed,
                   fetched>>

\* _handle_setpoint_message: a message of the subscribed topic whose payload
\* carries temperature_c, valid_from and valid_until as given.
HandleSetpointMessage(z, temp, vf, vu) ==
    /\ HandleParsed(z, temp, vf, vu)
    /\ UNCHANGED restVars

\* datetime.fromisoformat of the texts that are ISO datetimes.
FromIsoFormat(text) == IF text = "T1" THEN 1 ELSE 2

\* SetpointCommand._parse_datetime: None for an absent or empty value and
\* for a text fromisoformat rejects.
ParseDatetime(value) ==
    IF value = NoText THEN NoTime
    ELSE IF value \in IsoTexts THEN FromIsoFormat(value)
    ELSE NoTime

\* SetpointCommand.__init__: data.get("temperature_c", 20.0).
TemperatureOf(data) ==
    IF data.temperature_c = NoTemp THEN DefaultTemp ELSE data.temperature_c

\* The payload is not a setpoint command: it is not JSON, it has no
\* temperature_c, or a validity timestamp of it is not a datetime.
Unparsable(data) ==
    \/ ~data.json
    \/ data.temperature_c = NoTemp
    \/ data.valid_from \notin IsoTexts \cup {NoText}
    \/ data.valid_until \notin IsoTexts \cup {NoText}

\* _handle_setpoint_message from the raw payload: json.loads raises and
\* the message is discarded, or SetpointCommand is built from the dict and
\* the message is handled.
HandlePayload(z, data) ==
    /\ malformed' = (IF Unparsable(data) THEN malformed \cup {nextId}
                     ELSE malformed)
    /\ IF ~data.json
       THEN /\ subscribed
            /\ nextId <= MaxCommands
            /\ nextId' = nextId + 1
            /\ UNCHANGED <<now, actuator, handlerVars, coordVars, histVars>>
       ELSE HandleParsed(z, TemperatureOf(data), ParseDatetime(data.valid_from),
                         ParseDatetime(data.valid_until))
    /\ UNCHANGED <<awayVars, eval, telemetryVars, events>>

\* The handler's _apply_setpoint up to its await: the climate entity is
\* looked up (exists) and the blocking service call is made.
ApplyStart(c, exists) ==
    /\ inflight' = (IF exists THEN inflight \cup {c} ELSE inflight)
    /\ issued' = (IF exists THEN issued \cup {c} ELSE issued)

\* A faulty _schedule_setpoint that arms the new timer and leaves the one
\* already stored for the zone running.
ScheduleSetpointNoCancel(c) ==
    /\ timers' = timers \cup {c}
    /\ scheduled_unsubs' = [scheduled_unsubs EXCEPT ![c.zone] = c.id]
    /\ armed' = armed \cup {c}

\* _schedule_setpoint: cancels the handle stored for the zone and arms a
\* timer for valid_from.
ScheduleSetpoint(c) ==
    /\ timers' = CancelHandle(c.zone) \cup {c}
    /\ scheduled_unsubs' = [scheduled_unsubs EXCEPT ![c.zone] = c.id]
    /\ armed' = armed \cup {c}

\* _process_setpoint, run from the start of its task to its first await.
ProcessSetpoint(t, exists) ==
    LET c == t.cmd IN
    IF ~t.climate
    THEN UNCHANGED <<pending_setpoints, timers, scheduled_unsubs, inflight,
                     issued, superseded, armed>>
    ELSE /\ pending_setpoints' = [pending_setpoints EXCEPT ![c.zone] = c]
         /\ IF is_valid_now(c, now)
            THEN /\ ApplyStart(c, exists)
                 /\ superseded' = superseded \cup TimersOf(c.zone)
                 /\ UNCHANGED <<timers, scheduled_unsubs, armed>>
            ELSE IF c.vf # NoTime
            THEN /\ ScheduleSetpoint(c)
                 /\ UNCHANGED <<inflight, issued, superseded>>
            ELSE UNCHANGED <<timers, scheduled_unsubs, inflight, issued,
                             superseded, armed>>

\* The event loop starts the oldest task that async_create_task made: a
\* _process_setpoint task of a message, or the _apply_setpoint task of a
\* timer.
StartTask(exists) ==
    /\ ready # <<>>
    /\ ready' = Tail(ready)
    /\ LET t == Head(ready) IN
       IF t.kind = "process"
       THEN ProcessSetpoint(t, exists)
       ELSE /\ ApplyStart(t.cmd, exists)
            /\ UNCHANGED <<pending_setpoints, timers, scheduled_unsubs,
                           superseded, armed>>
    /\ UNCHANGED <<now, nextId, actuator, subscribed, subscribe_returned,
                   handler_zones,
                   applied_setpoints, coordVars, lastReceived, written,
                   lastWritten, fetched>>
    /\ UNCHANGED restVars

\* The setpoint_applied event of a command.
AppliedEvent(c) == [id |-> c.id, zone |-> c.zone, temperature_c |-> c.temp]

\* A faulty _apply_setpoint that records the write and leaves the zone's
\* pending entry in place.
ApplyFinishKeepsPending(c, ok) ==
    /\ c \in inflight
    /\ inflight' = inflight \ {c}
    /\ IF ok
       THEN /\ actuator' = [actuator EXCEPT ![c.zone] = c.temp]
            /\ applied_setpoints' = [applied_setpoints EXCEPT ![c.zone] = c]
            /\ written' = written \cup {c}
            /\ lastWritten' = [lastWritten EXCEPT ![c.zone] = c]
            /\ events' = events (+) SetToBag({AppliedEvent(c)})
       ELSE UNCHANGED <<actuator, applied_setpoints, written, lastWritten, events>>
    /\ UNCHANGED <<now, nextId, subscribed, subscribe_returned, handler_zones,
                   pending_setpoints,
                   scheduled_unsubs, timers, ready, coordVars, lastReceived,
                   issued, superseded, armed, fetched>>
    /\ UNCHANGED quietVars

\* A faulty _apply_setpoint that stores the command as applied before the
\* service call has returned.
ApplyFinishStoresFirst(c, ok) ==
    /\ c \in inflight
    /\ inflight' = inflight \ {c}
    /\ applied_setpoints' = [applied_setpoints EXCEPT ![c.zone] = c]
    /\ IF ok
       THEN /\ actuator' = [actuator EXCEPT ![c.zone] = c.temp]
            /\ pending_setpoints' = [pending_setpoints EXCEPT ![c.zone] = NoCmd]
            /\ written' = written \cup {c}
            /\ lastWritten' = [lastWritten EXCEPT ![c.zone] = c]
            /\ events' = events (+) SetToBag({AppliedEvent(c)})
       ELSE UNCHANGED <<actuator, pending_setpoints, written, lastWritten,
                        events>>
    /\ UNCHANGED <<now, nextId, subscribed, subscribe_returned, handler_zones,
                   scheduled_unsubs,
                   timers, ready, coordVars, lastReceived, issued, superseded,
                   armed, fetched>>
    /\ UNCHANGED quietVars

\* The handler's _apply_setpoint after its await: the service call returned
\* (ok) or raised.
ApplyFinish(c, ok) ==
    /\ c \in inflight
    /\ inflight' = inflight \ {c}
    /\ IF ok
       THEN /\ actuator' = [actuator EXCEPT ![c.zone] = c.temp]
            /\ applied_setpoints' = [applied_setpoints EXCEPT ![c.zone] = c]
            /\ pending_setpoints' = [pending_setpoints EXCEPT ![c.zone] = NoCmd]
            /\ written' = written \cup {c}
            /\ lastWritten' = [lastWritten EXCEPT ![c.zone] = c]
            /\ events' = events (+) SetToBag({AppliedEvent(c)})
       ELSE UNCHANGED <<actuator, applied_setpoints, pending_setpoints, written,
                        lastWritten, events>>
    /\ UNCHANGED <<now, nextId, subscribed, subscribe_returned, handler_zones,
                   scheduled_unsubs,
                   timers, ready, coordVars, lastReceived, issued, superseded,
                   armed, fetched>>
    /\ UNCHANGED quietVars

\* apply_scheduled_setpoint: the timer of a scheduled command fires; it
\* creates the _apply_setpoint task and deletes the zone's handle.
TimerFire(c) ==
    /\ c \in timers
    /\ now >= c.vf
    /\ timers' = timers \ {c}
    /\ ready' = Append(ready, [kind |-> "apply", cmd |-> c, climate |-> TRUE])
    /\ scheduled_unsubs' = [scheduled_unsubs EXCEPT ![c.zone] = 0]
    /\ UNCHANGED <<now, nextId, actuator, subscribed, subscribe_returned,
                   handler_zones,
                   pending_setpoints, applied_setpoints, inflight, coordVars,
                   histVars>>
    /\ UNCHANGED restVars

\* update_zones: the whole dict is replaced.
UpdateZones(cfg) ==
    /\ cfg # handler_zones
    /\ handler_zones' = cfg
    /\ UNCHANGED <<now, nextId, actuator, subscribed, subscribe_returned,
                   pending_setpoints,
                   scheduled_unsubs, timers, applied_setpoints, ready, inflight,
                   coordVars, histVars>>
    /\ UNCHANGED restVars

\* set_auto_control
SetAutoControl(z, enabled) ==
    /\ handler_zones[z].auto_control # enabled
    /\ handler_zones' = [handler_zones EXCEPT ![z].auto_control = enabled]
    /\ UNCHANGED <<now, nextId, actuator, subscribed, subscribe_returned,
                   pending_setpoints,
                   scheduled_unsubs, timers, applied_setpoints, ready, inflight,
                   coordVars, histVars>>
    /\ UNCHANGED restVars

\* ------------------------------------------------- SmartHeatingCoordinator

\* _async_update_data: the zone list is replaced by what the API returns.
Refresh(cfg) ==
    /\ cfg # zones
    /\ zones' = cfg
    /\ UNCHANGED <<now, nextId, actuator, handlerVars, boost_until,
                   coord_applied_setpoints, poll, boost, acks, nBoosts,
                   histVars>>
    /\ UNCHANGED restVars

\* A faulty _apply_setpoint that returns early while away mode is active.
CoordAcceptsUnlessAway(c, missing) ==
    /\ c.zone \in Zones
    /\ zones[c.zone].present
    /\ zones[c.zone].auto_control_enabled
    /\ ~is_boosted(c.zone, now)
    /\ ~away_mode
    /\ zones[c.zone].climate
    /\ c.zone \notin missing

\* The coordinator's _apply_setpoint up to its await: TRUE when the command
\* reaches the service call.  missing holds the zones whose climate entity
\* hass.states does not know.
CoordAccepts(c, missing) ==
    /\ c.zone \in Zones
    /\ zones[c.zone].present
    /\ zones[c.zone].auto_control_enabled
    /\ ~is_boosted(c.zone, now)
    /\ zones[c.zone].climate
    /\ c.zone \notin missing

\* The for loop of async_send_telemetry from one await to the next: the
\* setpoints that _apply_setpoint returns from early are passed over; what
\* is left starts with the setpoint whose service call is awaited.
RECURSIVE SkipDropped(_, _)
SkipDropped(q, missing) ==
    IF q = <<>> THEN <<>>
    ELSE IF CoordAccepts(Head(q), missing) THEN q
    ELSE SkipDropped(Tail(q), missing)

\* The coroutine goes on with the setpoints q.
PollContinue(q, missing) ==
    LET rest == SkipDropped(q, missing) IN
    /\ poll' = [pc |-> IF rest = <<>> THEN "idle" ELSE "writing", queue |-> rest]
    /\ pollBy' = (IF rest = <<>> THEN "none" ELSE pollBy)
    /\ issued' = (IF rest = <<>> THEN issued ELSE issued \cup {Head(rest)})

\* async_send_telemetry up to the HTTP request; a coordinator without zones
\* sends nothing.
PollBegin(by) ==
    /\ poll.pc = "idle"
    /\ \E z \in Zones : zones[z].present
    /\ poll' = [pc |-> "fetching", queue |-> <<>>]
    /\ pollBy' = by
    /\ UNCHANGED <<now, nextId, actuator, handlerVars, zones, boost_until,
                   coord_applied_setpoints, boost, acks, nBoosts, histVars>>
    /\ UNCHANGED <<awayVars, eval, telemetry_unsub, telemetry_timer,
                   poll_period, suggested, events, malformed>>

\* async_send_telemetry called by the send_telemetry service or by a task
\* made outside the interval tracker.
PollStart == PollBegin("call")

\* The interval tracker fires: _send_telemetry_callback makes the
\* async_send_telemetry task.
TelemetryTimerFire ==
    /\ telemetry_timer > 0
    /\ PollBegin("timer")

\* A faulty start_telemetry_sender that does not look at the stored handle.
StartTelemetrySenderAgain ==
    /\ poll.pc = "idle"
    /\ telemetry_unsub' = TRUE
    /\ telemetry_timer' = telemetry_timer + 1
    /\ poll_period' = TELEMETRY_INTERVAL
    /\ IF \E z \in Zones : zones[z].present
       THEN /\ poll' = [pc |-> "fetching", queue |-> <<>>]
            /\ pollBy' = "call"
       ELSE UNCHANGED <<poll, pollBy>>
    /\ UNCHANGED <<now, nextId, actuator, handlerVars, zones, boost_until,
                   coord_applied_setpoints, boost, acks, nBoosts, histVars>>
    /\ UNCHANGED <<awayVars, eval, suggested, events, malformed>>

\* start_telemetry_sender: returns when a handle is stored; otherwise arms
\* the interval tracker with TELEMETRY_INTERVAL and makes the task of the
\* initial async_send_telemetry.  One coroutine is followed at a time.
StartTelemetrySender ==
    /\ poll.pc = "idle"
    /\ IF telemetry_unsub
       THEN UNCHANGED <<telemetry_unsub, telemetry_timer, poll_period, poll,
                        pollBy>>
       ELSE /\ telemetry_unsub' = TRUE
            /\ telemetry_timer' = telemetry_timer + 1
            /\ poll_period' = TELEMETRY_INTERVAL
            /\ IF \E z \in Zones : zones[z].present
               THEN /\ poll' = [pc |-> "fetching", queue |-> <<>>]
                    /\ pollBy' = "call"
               ELSE UNCHANGED <<poll, pollBy>>
    /\ UNCHANGED <<now, nextId, actuator, handlerVars, zones, boost_until,
                   coord_applied_setpoints, boost, acks, nBoosts, histVars>>
    /\ UNCHANGED <<awayVars, eval, suggested, events, malformed>>

\* stop_telemetry_sender: cancels the tracker of the stored handle and
\* forgets the handle.
StopTelemetrySender ==
    /\ IF telemetry_unsub
       THEN /\ telemetry_timer' = telemetry_timer - 1
            /\ telemetry_unsub' = FALSE
       ELSE UNCHANGED <<telemetry_unsub, telemetry_timer>>
    /\ UNCHANGED <<now, nextId, actuator, handlerVars, coordVars, histVars>>
    /\ UNCHANGED <<awayVars, eval, poll_period, suggested, pollBy, events, malformed>>

\* send_telemetry raises SmartHeatingAPIError.
PollFetchFail ==
    /\ poll.pc = "fetching"
    /\ poll' = [pc |-> "idle", queue |-> <<>>]
    /\ UNCHANGED <<now, nextId, actuator, handlerVars, zones, boost_until,
                   coord_applied_setpoints, boost, acks, nBoosts, histVars>>
    /\ pollBy' = "none"
    /\ UNCHANGED <<awayVars, eval, telemetry_unsub, telemetry_timer,
                   poll_period, suggested, events, malformed>>

\* A setpoint of a telemetry response; the optimizer gives each a command_id.
PollCommand(id, z, temp, w) ==
    [id |-> id, zone |-> z, temp |-> temp, vf |-> w[1], vu |-> w[2],
     src |-> "poll", cid |-> id]

\* The setpoints of a telemetry response, by zone, temperature and window.
PollInputs == Zones \X Temps \X PollWindows

\* The pending_setpoints lists a telemetry response can carry, numbered from
\* nextId in the order of the list.
PollBatches ==
    UNION {
        {[i \in 1..n |-> PollCommand(nextId + i - 1, in[i][1], in[i][2], in[i][3])]
            : in \in [1..n -> PollInputs]}
        : n \in {k \in BatchSizes : nextId + k - 1 <= MaxCommands}}

\* send_telemetry returns pending_setpoints = q and whatever else the
\* response carries, a suggested interval included, which nothing reads.
\* No acknowledge_setpoint call follows any setpoint.
PollFetchOk(q, missing) ==
    /\ poll.pc = "fetching"
    /\ \E s \in SuggestedIntervals : suggested' = s
    /\ nextId' = nextId + Len(q)
    /\ fetched' = fetched \cup {q[i] : i \in 1..Len(q)}
    /\ PollContinue(q, missing)
    /\ UNCHANGED <<now, actuator, handlerVars, zones, boost_until,
                   coord_applied_setpoints, boost, acks, nBoosts, lastReceived,
                   written, lastWritten, superseded, armed>>
    /\ UNCHANGED <<awayVars, eval, telemetry_unsub, telemetry_timer,
                   poll_period, events, malformed>>

\* A faulty _apply_setpoint that lets the exception of the service call out:
\* the loop of async_send_telemetry ends there.
PollApplyFinishRaises(ok, missing) ==
    /\ poll.pc = "writing"
    /\ LET c == Head(poll.queue) IN
       /\ IF ok
          THEN /\ actuator' = [actuator EXCEPT ![c.zone] = c.temp]
               /\ coord_applied_setpoints' =
                      [coord_applied_setpoints EXCEPT ![c.zone] = c]
               /\ written' = written \cup {c}
               /\ lastWritten' = [lastWritten EXCEPT ![c.zone] = c]
               /\ events' = events (+) SetToBag({AppliedEvent(c)})
          ELSE UNCHANGED <<actuator, coord_applied_setpoints, written,
                           lastWritten, events>>
       /\ PollContinue(IF ok THEN Tail(poll.queue) ELSE <<>>, missing)
    /\ UNCHANGED <<now, nextId, handlerVars, zones, boost_until, boost, acks,
                   nBoosts, lastReceived, superseded, armed, fetched>>
    /\ UNCHANGED <<awayVars, eval, telemetry_unsub, telemetry_timer,
                   poll_period, suggested, malformed>>

\* The coordinator's _apply_setpoint after its await: the service call
\* returned (ok) or raised; the loop goes on with the next setpoint.
PollApplyFinish(ok, missing) ==
    /\ poll.pc = "writing"
    /\ LET c == Head(poll.queue) IN
       /\ IF ok
          THEN /\ actuator' = [actuator EXCEPT ![c.zone] = c.temp]
               /\ coord_applied_setpoints' =
                      [coord_applied_setpoints EXCEPT ![c.zone] = c]
               /\ written' = written \cup {c}
               /\ lastWritten' = [lastWritten EXCEPT ![c.zone] = c]
               /\ events' = events (+) SetToBag({AppliedEvent(c)})
          ELSE UNCHANGED <<actuator, coord_applied_setpoints, written,
                           lastWritten, events>>
       /\ PollContinue(Tail(poll.queue), missing)
    /\ UNCHANGED <<now, nextId, handlerVars, zones, boost_until, boost, acks,
                   nBoosts, lastReceived, superseded, armed, fetched>>
    /\ UNCHANGED <<awayVars, eval, telemetry_unsub, telemetry_timer,
                   poll_period, suggested, malformed>>

\* The zones async_boost_zone loops over: the named zone if the list holds
\* it, every zone of the list when none is named.
ZonesToBoost(target) ==
    LET all == SelectSeq(ZoneOrder, LAMBDA z : zones[z].present) IN
    IF target = "all" THEN all ELSE SelectSeq(all, LAMBDA z : z = target)

\* The for loop of async_boost_zone from one await to the next: zones
\* without a climate entity are passed over.
RECURSIVE SkipUnboostable(_, _)
SkipUnboostable(q, missing) ==
    IF q = <<>> THEN <<>>
    ELSE IF Head(q).climate /\ Head(q).zone \notin missing THEN q
    ELSE SkipUnboostable(Tail(q), missing)

\* A faulty loop that leaves a zone that is boosted at the setpoint it has.
BoostContinueNoStack(q, delta, duration, missing, act) ==
    LET rest == SkipUnboostable(q, missing) IN
    boost' = IF rest = <<>>
             THEN [pc |-> "idle", queue |-> <<>>, delta |-> 0, duration |-> 0,
                   temp |-> 0]
             ELSE [pc |-> "writing", queue |-> rest, delta |-> delta,
                   duration |-> duration,
                   temp |-> IF is_boosted(Head(rest).zone, now)
                            THEN act[Head(rest).zone]
                            ELSE act[Head(rest).zone] + delta]

\* The coroutine goes on with the zones q: it reads the thermostat act of
\* the first zone it can boost and calls the service with the raised value.
BoostContinue(q, delta, duration, missing, act) ==
    LET rest == SkipUnboostable(q, missing) IN
    boost' = IF rest = <<>>
             THEN [pc |-> "idle", queue |-> <<>>, delta |-> 0, duration |-> 0,
                   temp |-> 0]
             ELSE [pc |-> "writing", queue |-> rest, delta |-> delta,
                   duration |-> duration,
                   temp |-> act[Head(rest).zone] + delta]

\* async_boost_zone up to its first await.
BoostCall(target, duration, delta, missing) ==
    /\ boost.pc = "idle"
    /\ nBoosts' = nBoosts + 1
    /\ LET q == ZonesToBoost(target) IN
       BoostContinue([i \in 1..Len(q) |->
                         [zone |-> q[i], climate |-> zones[q[i]].climate]],
                     delta, duration, missing, actuator)
    /\ UNCHANGED <<now, nextId, actuator, handlerVars, zones, boost_until,
                   coord_applied_setpoints, poll, acks, histVars>>
    /\ UNCHANGED restVars

\* A call of the boost service or a press of a boost button, MaxBoosts
\* times at most.
BoostStart(target, duration, delta, missing) ==
    /\ nBoosts < MaxBoosts
    /\ BoostCall(target, duration, delta, missing)

\* A faulty async_boost_zone that tracks the boost end time whether or not
\* the service call raised.
BoostFinishMarksAlways(ok, missing) ==
    /\ boost.pc = "writing"
    /\ LET z == Head(boost.queue).zone IN
       /\ boost_until' = [boost_until EXCEPT ![z] = now + boost.duration]
       /\ IF ok
          THEN actuator' = [actuator EXCEPT ![z] = boost.temp]
          ELSE UNCHANGED actuator
       /\ BoostContinue(Tail(boost.queue), boost.delta, boost.duration, missing,
                        actuator')
    /\ UNCHANGED <<now, nextId, handlerVars, zones, coord_applied_setpoints,
                   poll, acks, nBoosts, histVars>>
    /\ UNCHANGED restVars

\* async_boost_zone after an await: the service call returned (ok) or
\* raised; the loop goes on with the next zone.
BoostFinish(ok, missing) ==
    /\ boost.pc = "writing"
    /\ LET z == Head(boost.queue).zone IN
       /\ IF ok
          THEN /\ actuator' = [actuator EXCEPT ![z] = boost.temp]
               /\ boost_until' = [boost_until EXCEPT ![z] = now + boost.duration]
          ELSE UNCHANGED <<actuator, boost_until>>
       /\ BoostContinue(Tail(boost.queue), boost.delta, boost.duration, missing,
                        actuator')
    /\ UNCHANGED <<now, nextId, handlerVars, zones, coord_applied_setpoints,
                   poll, acks, nBoosts, histVars>>
    /\ UNCHANGED restVars

\* The zones a loop over self._zones visits, with what it reads of each.
ZoneList ==
    LET all == SelectSeq(ZoneOrder, LAMBDA z : zones[z].present) IN
    [i \in 1..Len(all) |-> [zone |-> all[i], climate |-> zones[all[i]].climate]]

\* The loops of async_set_away_mode pass over zones without a climate
\* entity.
RECURSIVE SkipNoClimate(_)
SkipNoClimate(q) ==
    IF q = <<>> THEN <<>>
    ELSE IF Head(q).climate THEN q
    ELSE SkipNoClimate(Tail(q))

\* A faulty loop that saves the setpoint after the minimum was written.
AwayLoopSavesMinimum(k, enabled, q, missing, saved, since, act) ==
    LET rest == SkipNoClimate(q) IN
    IF rest = <<>>
    THEN /\ away_calls' = [away_calls EXCEPT ![k] = IdleCall]
         /\ saved_setpoints' = (IF enabled THEN saved ELSE [z \in Zones |-> NoTemp])
         /\ away_mode_since' = (IF enabled THEN since ELSE NoTime)
    ELSE LET z == Head(rest).zone IN
         /\ saved_setpoints' =
                (IF enabled /\ z \notin missing
                 THEN [saved EXCEPT ![z] = MinTemp] ELSE saved)
         /\ away_mode_since' = since
         /\ away_calls' = [away_calls EXCEPT ![k] =
                [pc |-> "writing", enabled |-> enabled, queue |-> rest,
                 temp |-> IF enabled THEN MinTemp
                          ELSE IF saved[z] # NoTemp THEN saved[z]
                          ELSE TargetTemp]]

\* async_set_away_mode call k goes on with the zones q, up to its next
\* await.  Enabling saves the thermostat's setpoint when hass.states knows
\* the entity and calls the service with the minimum; disabling calls it
\* with the saved setpoint, or the target temperature when none is saved.
\* After the last zone, disabling clears the timestamp and the snapshot.
AwayLoop(k, enabled, q, missing, saved, since, act) ==
    LET rest == SkipNoClimate(q) IN
    IF rest = <<>>
    THEN /\ away_calls' = [away_calls EXCEPT ![k] = IdleCall]
         /\ saved_setpoints' = (IF enabled THEN saved ELSE [z \in Zones |-> NoTemp])
         /\ away_mode_since' = (IF enabled THEN since ELSE NoTime)
    ELSE LET z == Head(rest).zone IN
         /\ saved_setpoints' =
                (IF enabled /\ z \notin missing
                 THEN [saved EXCEPT ![z] = act[z]] ELSE saved)
         /\ away_mode_since' = since
         /\ away_calls' = [away_calls EXCEPT ![k] =
                [pc |-> "writing", enabled |-> enabled, queue |-> rest,
                 temp |-> IF enabled THEN MinTemp
                          ELSE IF saved[z] # NoTemp THEN saved[z]
                          ELSE TargetTemp]]

\* No async_set_away_mode call is suspended.
NoAwayCall == \A k \in 1..MaxAwayCalls : away_calls[k].pc = "idle"

\* A faulty async_set_away_mode that enables without looking at _away_mode.
AwayStartEnablesAgain(enabled, missing) ==
    LET k == Len(awayLog) + 1 IN
    /\ k <= MaxAwayCalls
    /\ awayLog' = Append(awayLog, enabled)
    /\ IF enabled
       THEN /\ away_mode' = TRUE
            /\ AwayLoop(k, TRUE, ZoneList, missing, [z \in Zones |-> NoTemp],
                        now, actuator)
            /\ beforeAway' = actuator
            /\ awayClean' = NoAwayCall
       ELSE IF ~enabled /\ away_mode
       THEN /\ away_mode' = FALSE
            /\ AwayLoop(k, FALSE, ZoneList, missing, saved_setpoints,
                        away_mode_since, actuator)
            /\ awayClean' = (awayClean /\ NoAwayCall)
            /\ UNCHANGED beforeAway
       ELSE UNCHANGED <<away_mode, away_mode_since, saved_setpoints,
                        away_calls, beforeAway, awayClean>>
    /\ UNCHANGED <<now, nextId, actuator, handlerVars, coordVars, histVars,
                   awayRest>>

\* async_set_away_mode(enabled) up to its first await.  missing holds the
\* zones whose climate entity hass.states does not know.
AwayStart(enabled, missing) ==
    LET k == Len(awayLog) + 1 IN
    /\ k <= MaxAwayCalls
    /\ awayLog' = Append(awayLog, enabled)
    /\ IF enabled /\ ~away_mode
       THEN /\ away_mode' = TRUE
            /\ AwayLoop(k, TRUE, ZoneList, missing, [z \in Zones |-> NoTemp],
                        now, actuator)
            /\ beforeAway' = actuator
            /\ awayClean' = NoAwayCall
       ELSE IF ~enabled /\ away_mode
       THEN /\ away_mode' = FALSE
            /\ AwayLoop(k, FALSE, ZoneList, missing, saved_setpoints,
                        away_mode_since, actuator)
            /\ awayClean' = (awayClean /\ NoAwayCall)
            /\ UNCHANGED beforeAway
       ELSE UNCHANGED <<away_mode, away_mode_since, saved_setpoints,
                        away_calls, beforeAway, awayClean>>
    /\ UNCHANGED <<now, nextId, actuator, handlerVars, coordVars, histVars,
                   awayRest>>

\* async_set_away_mode call k after an await: the service call returned
\* (ok) or raised, and changed the thermostat if the entity is there; the
\* loop goes on with the next zone.
AwayFinish(k, ok, missing) ==
    /\ away_calls[k].pc = "writing"
    /\ LET c == away_calls[k]
           z == Head(c.queue).zone
       IN  /\ actuator' = (IF ok /\ z \notin missing
                           THEN [actuator EXCEPT ![z] = c.temp] ELSE actuator)
           /\ AwayLoop(k, c.enabled, Tail(c.queue), missing, saved_setpoints,
                       away_mode_since, actuator')
           /\ awayClean' = (awayClean /\ ok /\ z \notin missing)
    /\ UNCHANGED <<now, nextId, handlerVars, coordVars, histVars, away_mode,
                   awayLog, beforeAway, awayRest>>

\* What _process_setpoint does with a command at time t: "apply" when
\* is_valid_now holds, "schedule" when it does not and valid_from is set,
\* "drop" otherwise.
ProcessBranch(c, t) ==
    IF is_valid_now(c, t) THEN "apply"
    ELSE IF c.vf # NoTime THEN "schedule"
    ELSE "drop"

\* The branch is taken for the window and the time chosen at the start.
Evaluate ==
    /\ eval.out = "unset"
    /\ eval' = [eval EXCEPT !.out = ProcessBranch(eval, eval.ref)]
    /\ UNCHANGED <<now, nextId, actuator, handlerVars, coordVars, histVars,
                   awayVars, telemetryVars, events, malformed>>

\* ------------------------------------------------------------------- Next
Next ==
    \/ Tick
    \/ \E ok \in BOOLEAN : AsyncSubscribe(ok)
    \/ AsyncUnsubscribe
    \/ \E z \in Zones \cup {UnknownZone}, temp \in Temps, vf \in ValidFroms,
          vu \in ValidUntils : HandleSetpointMessage(z, temp, vf, vu)
    \/ \E z \in Zones, data \in Payloads : HandlePayload(z, data)
    \/ \E exists \in BOOLEAN : StartTask(exists)
    \/ \E c \in inflight, ok \in BOOLEAN : ApplyFinish(c, ok)
    \/ \E c \in timers : TimerFire(c)
    \/ \E cfg \in HandlerZoneDicts : UpdateZones(cfg)
    \/ \E z \in Zones, enabled \in BOOLEAN : SetAutoControl(z, enabled)
    \/ \E cfg \in ApiZoneLists : Refresh(cfg)
    \/ PollStart
    \/ StartTelemetrySender
    \/ StopTelemetrySender
    \/ TelemetryTimerFire
    \/ PollFetchFail
    \/ \E q \in PollBatches, missing \in SUBSET Zones : PollFetchOk(q, missing)
    \/ \E ok \in BOOLEAN, missing \in SUBSET Zones : PollApplyFinish(ok, missing)
    \/ \E target \in Zones \cup {"all"}, duration \in BoostDurations,
          delta \in BoostDeltas, missing \in SUBSET Zones :
          BoostStart(target, duration, delta, missing)
    \/ \E ok \in BOOLEAN, missing \in SUBSET Zones : BoostFinish(ok, missing)
    \/ \E enabled \in BOOLEAN, missing \in SUBSET Zones :
          AwayStart(enabled, missing)
    \/ \E k \in 1..MaxAwayCalls, ok \in BOOLEAN, missing \in SUBSET Zones :
          AwayFinish(k, ok, missing)
    \/ Evaluate

Spec == Init /\ [][Next]_vars

\* ---------------------------------------------------- the channels alone
\* The handler's variables are written by the handler's actions only, and
\* the handler reads nothing the coordinator writes; the same holds the
\* other way round.  The two share the thermostats alone, which neither
\* reads before a command write.

\* async_create_task starts a task at once (eager start) or at a later
\* turn of the event loop, as the Home Assistant version has it.  Where a
\* specification says AtOnce, the task of a message or of a timer starts
\* before anything else happens; these behaviours exist either way.
AtOnce == ready = <<>>

\* The push channel.
NextPush ==
    \/ \E exists \in BOOLEAN : StartTask(exists)
    \/ AtOnce /\ Tick
    \/ AtOnce /\ \E ok \in BOOLEAN : AsyncSubscribe(ok)
    \/ AtOnce /\ AsyncUnsubscribe
    \/ AtOnce /\ \E z \in Zones \cup {UnknownZone}, temp \in Temps,
                    vf \in ValidFroms, vu \in ValidUntils :
                    HandleSetpointMessage(z, temp, vf, vu)
    \/ AtOnce /\ \E c \in inflight, ok \in BOOLEAN : ApplyFinish(c, ok)
    \/ AtOnce /\ \E c \in timers : TimerFire(c)
    \/ AtOnce /\ \E cfg \in HandlerZoneDicts : UpdateZones(cfg)
    \/ AtOnce /\ \E z \in Zones, enabled \in BOOLEAN : SetAutoControl(z, enabled)

PushSpec == Init /\ [][NextPush]_vars

\* The poll channel and boost.
NextPoll ==
    \/ Tick
    \/ \E cfg \in ApiZoneLists : Refresh(cfg)
    \/ PollStart
    \/ PollFetchFail
    \/ \E q \in PollBatches, missing \in SUBSET Zones : PollFetchOk(q, missing)
    \/ \E ok \in BOOLEAN, missing \in SUBSET Zones : PollApplyFinish(ok, missing)
    \/ \E target \in Zones \cup {"all"}, duration \in BoostDurations,
          delta \in BoostDeltas, missing \in SUBSET Zones :
          BoostStart(target, duration, delta, missing)
    \/ \E ok \in BOOLEAN, missing \in SUBSET Zones : BoostFinish(ok, missing)

PollSpec == Init /\ [][NextPoll]_vars

\* Both channels once set up: the first refresh has loaded the zones, all
\* with auto-control on, and the handler has subscribed; the configuration
\* stays as it is.
InitRunningChannels ==
    /\ now = 0
    /\ nextId = 1
    /\ actuator \in [Zones -> InitialTemps]
    /\ subscribed = TRUE
    /\ subscribe_returned = "True"
    /\ handler_zones = [z \in Zones |-> [auto_control |-> TRUE, climate |-> TRUE]]
    /\ pending_setpoints = [z \in Zones |-> NoCmd]
    /\ scheduled_unsubs = [z \in Zones |-> 0]
    /\ timers = {}
    /\ applied_setpoints = [z \in Zones |-> NoCmd]
    /\ ready = <<>>
    /\ inflight = {}
    /\ zones = [z \in Zones |-> [present |-> TRUE, auto_control_enabled |-> TRUE,
                                 climate |-> TRUE]]
    /\ boost_until = [z \in Zones |-> NoTime]
    /\ coord_applied_setpoints = [z \in Zones |-> NoCmd]
    /\ poll = [pc |-> "idle", queue |-> <<>>]
    /\ boost = [pc |-> "idle", queue |-> <<>>, delta |-> 0, duration |-> 0, temp |-> 0]
    /\ acks = <<>>
    /\ nBoosts = 0
    /\ lastReceived = [z \in Zones |-> 0]
    /\ issued = {}
    /\ written = {}
    /\ lastWritten = [z \in Zones |-> NoCmd]
    /\ superseded = {}
    /\ armed = {}
    /\ fetched = {}

InitRunning ==
    /\ InitRunningChannels
    /\ InitAway
    /\ InitRestRunning

NextRunning ==
    \/ \E exists \in BOOLEAN : StartTask(exists)
    \/ AtOnce /\ Tick
    \/ AtOnce /\ \E z \in Zones \cup {UnknownZone}, temp \in Temps,
                    vf \in ValidFroms, vu \in ValidUntils :
                    HandleSetpointMessage(z, temp, vf, vu)
    \/ AtOnce /\ \E c \in inflight, ok \in BOOLEAN : ApplyFinish(c, ok)
    \/ AtOnce /\ \E c \in timers : TimerFire(c)
    \/ AtOnce /\ PollStart
    \/ AtOnce /\ \E q \in PollBatches, missing \in SUBSET Zones :
                    PollFetchOk(q, missing)
    \/ AtOnce /\ \E ok \in BOOLEAN, missing \in SUBSET Zones :
                    PollApplyFinish(ok, missing)
    \/ AtOnce /\ \E target \in Zones \cup {"all"}, duration \in BoostDurations,
                    delta \in BoostDeltas, missing \in SUBSET Zones :
                    BoostStart(target, duration, delta, missing)
    \/ AtOnce /\ \E ok \in BOOLEAN, missing \in SUBSET Zones :
                    BoostFinish(ok, missing)

RunningSpec == InitRunning /\ [][NextRunning]_vars

\* The scheduler of the push channel: messages, tasks, timers, subscribing
\* and unsubscribing, with the zone configuration as constructed.  The
\* configuration only decides which messages are dropped on receipt.
NextScheduler ==
    \/ Tick
    \/ \E ok \in BOOLEAN : AsyncSubscribe(ok)
    \/ AsyncUnsubscribe
    \/ \E z \in Zones \cup {UnknownZone}, temp \in LiveTemps, vf \in ValidFroms,
          vu \in ValidUntils : HandleSetpointMessage(z, temp, vf, vu)
    \/ \E exists \in BOOLEAN : StartTask(exists)
    \/ \E c \in inflight, ok \in BOOLEAN : ApplyFinish(c, ok)
    \/ \E c \in timers : TimerFire(c)

SchedulerSpec == Init /\ [][NextScheduler]_vars

\* The scheduler while the handler stays subscribed and the thermostats are
\* there and take every write.  The event loop runs every task it was given
\* and every timer that is due, service calls return, and time passes.
NextLive ==
    \/ Tick
    \/ \E z \in Zones, temp \in LiveTemps, vf \in ValidFroms,
          vu \in ValidUntils : HandleSetpointMessage(z, temp, vf, vu)
    \/ StartTask(TRUE)
    \/ \E c \in inflight : ApplyFinish(c, TRUE)
    \/ \E c \in timers : TimerFire(c)

LiveSpec ==
    /\ InitRunning
    /\ [][NextLive]_vars
    /\ WF_vars(Tick)
    /\ WF_vars(StartTask(TRUE))
    /\ WF_vars(\E c \in inflight : ApplyFinish(c, TRUE))
    /\ WF_vars(\E c \in timers : TimerFire(c))

\* The validity window alone: any valid_from and valid_until, set or not,
\* looked at at any time.
EvalTimes == 0..MaxEvalTime
InitEval ==
    /\ now = 0
    /\ nextId = 1
    /\ actuator \in [Zones -> InitialTemps]
    /\ subscribed = TRUE
    /\ subscribe_returned = "True"
    /\ handler_zones = [z \in Zones |-> [auto_control |-> TRUE, climate |-> TRUE]]
    /\ pending_setpoints = [z \in Zones |-> NoCmd]
    /\ scheduled_unsubs = [z \in Zones |-> 0]
    /\ timers = {}
    /\ applied_setpoints = [z \in Zones |-> NoCmd]
    /\ ready = <<>>
    /\ inflight = {}
    /\ zones = [z \in Zones |-> AbsentZone]
    /\ boost_until = [z \in Zones |-> NoTime]
    /\ coord_applied_setpoints = [z \in Zones |-> NoCmd]
    /\ poll = [pc |-> "idle", queue |-> <<>>]
    /\ boost = [pc |-> "idle", queue |-> <<>>, delta |-> 0, duration |-> 0, temp |-> 0]
    /\ acks = <<>>
    /\ nBoosts = 0
    /\ lastReceived = [z \in Zones |-> 0]
    /\ issued = {}
    /\ written = {}
    /\ lastWritten = [z \in Zones |-> NoCmd]
    /\ superseded = {}
    /\ armed = {}
    /\ fetched = {}
    /\ InitAway
    /\ InitTelemetry
    /\ events = EmptyBag
    /\ malformed = {}
    /\ eval \in [vf : {NoTime} \cup EvalTimes, vu : {NoTime} \cup EvalTimes,
                  ref : EvalTimes, out : {"unset"}]

NextEval == Evaluate

EvalSpec == InitEval /\ [][NextEval]_vars

\* Away mode alone, once the zones are loaded: each zone with or without a
\* climate entity, the thermostats at any of the initial setpoints.
InitAwayMode ==
    /\ now = 0
    /\ nextId = 1
    /\ actuator \in [Zones -> AwayInitialTemps]
    /\ subscribed = TRUE
    /\ subscribe_returned = "True"
    /\ handler_zones = [z \in Zones |-> [auto_control |-> TRUE, climate |-> TRUE]]
    /\ pending_setpoints = [z \in Zones |-> NoCmd]
    /\ scheduled_unsubs = [z \in Zones |-> 0]
    /\ timers = {}
    /\ applied_setpoints = [z \in Zones |-> NoCmd]
    /\ ready = <<>>
    /\ inflight = {}
    /\ zones \in [Zones -> [present : {TRUE}, auto_control_enabled : {TRUE},
                             climate : BOOLEAN]]
    /\ boost_until = [z \in Zones |-> NoTime]
    /\ coord_applied_setpoints = [z \in Zones |-> NoCmd]
    /\ poll = [pc |-> "idle", queue |-> <<>>]
    /\ boost = [pc |-> "idle", queue |-> <<>>, delta |-> 0, duration |-> 0, temp |-> 0]
    /\ acks = <<>>
    /\ nBoosts = 0
    /\ lastReceived = [z \in Zones |-> 0]
    /\ issued = {}
    /\ written = {}
    /\ lastWritten = [z \in Zones |-> NoCmd]
    /\ superseded = {}
    /\ armed = {}
    /\ fetched = {}
    /\ InitAway
    /\ InitRestRunning

NextAway ==
    \/ Tick
    \/ \E enabled \in BOOLEAN, missing \in SUBSET Zones :
          AwayStart(enabled, missing)
    \/ \E k \in 1..MaxAwayCalls, ok \in BOOLEAN, missing \in SUBSET Zones :
          AwayFinish(k, ok, missing)

AwaySpec == InitAwayMode /\ [][NextAway]_vars

\* The push channel fed with raw payloads, once the entry is set up.
NextPayload ==
    \/ \E exists \in BOOLEAN : StartTask(exists)
    \/ AtOnce /\ Tick
    \/ AtOnce /\ \E z \in Zones, data \in Payloads : HandlePayload(z, data)
    \/ AtOnce /\ \E c \in inflight, ok \in BOOLEAN : ApplyFinish(c, ok)
    \/ AtOnce /\ \E c \in timers : TimerFire(c)

PayloadSpec == InitRunning /\ [][NextPayload]_vars

\* The telemetry responses that carry one temperature only.
PlainBatches == {q \in PollBatches : \A i \in DOMAIN q : q[i].temp = 19}

\* Away mode next to the poll channel, once the entry is set up and at one
\* point in time: one async_set_away_mode call at a time, every thermostat
\* is there and takes the away write.
NextAwayPoll ==
    \/ NoAwayCall /\ \E enabled \in BOOLEAN : AwayStart(enabled, {})
    \/ \E k \in 1..MaxAwayCalls : AwayFinish(k, TRUE, {})
    \/ PollStart
    \/ \E q \in PlainBatches : PollFetchOk(q, {})
    \/ \E ok \in BOOLEAN : PollApplyFinish(ok, {})

AwayPollSpec == InitRunning /\ [][NextAwayPoll]_vars

\* No boost was asked for yet.
NeverBoosted == nBoosts = 0

\* The push channel with a boost that comes after the messages: every
\* message is taken before the boost service is called.
NextBoostAfter ==
    \/ \E exists \in BOOLEAN : StartTask(exists)
    \/ AtOnce /\ Tick
    \/ AtOnce /\ NeverBoosted
              /\ \E z \in Zones, temp \in LiveTemps, vf \in ValidFroms,
                    vu \in ValidUntils : HandleSetpointMessage(z, temp, vf, vu)
    \/ AtOnce /\ \E c \in inflight, ok \in BOOLEAN : ApplyFinish(c, ok)
    \/ AtOnce /\ \E c \in timers : TimerFire(c)
    \/ AtOnce /\ \E target \in Zones \cup {"all"}, duration \in BoostDurations,
                    delta \in BoostDeltas, missing \in SUBSET Zones :
                    BoostStart(target, duration, delta, missing)
    \/ AtOnce /\ \E ok \in BOOLEAN, missing \in SUBSET Zones :
                    BoostFinish(ok, missing)

BoostAfterSpec == InitRunning /\ [][NextBoostAfter]_vars

\* Both channels with thermostats that may be missing and service calls
\* that may raise; the commands never expire and the telemetry responses
\* carry one temperature.
NextFailing ==
    \/ \E exists \in BOOLEAN : StartTask(exists)
    \/ Tick
    \/ \E z \in Zones, temp \in LiveTemps, vf \in ValidFroms :
          HandleSetpointMessage(z, temp, vf, NoTime)
    \/ \E c \in inflight, ok \in BOOLEAN : ApplyFinish(c, ok)
    \/ \E c \in timers : TimerFire(c)
    \/ PollStart
    \/ PollFetchFail
    \/ \E q \in PlainBatches, missing \in SUBSET Zones :
          PollFetchOk(q, missing)
    \/ \E ok \in BOOLEAN, missing \in SUBSET Zones :
          PollApplyFinish(ok, missing)

FailingSpec == InitRunning /\ [][NextFailing]_vars

\* The telemetry responses whose setpoints have no valid_from and no
\* valid_until.
WindowlessBatches ==
    {q \in PlainBatches :
        \A i \in DOMAIN q : q[i].vf = NoTime /\ q[i].vu = NoTime}

\* Boosts next to the poll channel at one point in time, each zone with or
\* without a climate entity: the thermostat of a zone may be missing when a boost starts, and
\* the service call of a boost or of a command may raise.
NextBoostFail ==
    \/ \E target \in Zones \cup {"all"}, duration \in BoostDurations,
          delta \in BoostDeltas, missing \in SUBSET Zones :
          BoostStart(target, duration, delta, missing)
    \/ \E ok \in BOOLEAN : BoostFinish(ok, {})
    \/ PollStart
    \/ \E q \in WindowlessBatches : PollFetchOk(q, {})
    \/ \E ok \in BOOLEAN : PollApplyFinish(ok, {})

BoostFailSpec == InitAwayMode /\ [][NextBoostFail]_vars

\* The poll channel at one point in time with requests that may fail, zone
\* lists that change, zones without a climate entity, boosts and service
\* calls that may raise.
NextContain ==
    \/ NextBoostFail
    \/ PollFetchFail
    \/ \E cfg \in ApiZoneLists : Refresh(cfg)

ContainSpec == InitAwayMode /\ [][NextContain]_vars

\* The push channel and boosts at one point in time, with thermostats that
\* may be missing and service calls that may raise: commands are applied,
\* dropped, or scheduled with a timer that a later command of the zone
\* cancels.
NextZones ==
    \/ \E exists \in BOOLEAN : StartTask(exists)
    \/ \E z \in Zones, temp \in LiveTemps, vf \in ValidFroms :
          HandleSetpointMessage(z, temp, vf, NoTime)
    \/ \E c \in inflight, ok \in BOOLEAN : ApplyFinish(c, ok)
    \/ \E target \in Zones \cup {"all"}, duration \in BoostDurations,
          delta \in BoostDeltas, missing \in SUBSET Zones :
          BoostStart(target, duration, delta, missing)
    \/ \E ok \in BOOLEAN : BoostFinish(ok, {})

ZonesSpec == InitRunning /\ [][NextZones]_vars

\* Away-mode calls that overlap in any way, at one point in time: every
\* thermostat is there and takes every write.
NextAwayRace ==
    \/ \E enabled \in BOOLEAN : AwayStart(enabled, {})
    \/ \E k \in 1..MaxAwayCalls : AwayFinish(k, TRUE, {})

AwayRaceSpec == InitAwayMode /\ [][NextAwayRace]_vars

\* Boosts of all zones one after the other while time passes, each zone
\* with or without a climate entity: every thermostat is there and takes
\* every write, and nothing else writes.
NextStack ==
    \/ Tick
    \/ /\ nBoosts < MaxStackedBoosts
       /\ \E duration \in BoostDurations, delta \in BoostDeltas :
             BoostCall("all", duration, delta, {})
    \/ BoostFinish(TRUE, {})

StackSpec == InitAwayMode /\ [][NextStack]_vars

\* Boosts that run out while time passes, next to polls that fetch one
\* command without a validity window, and a first away-mode call made between
\* the other calls once a boost has run out: every thermostat is there, and
\* the writes of commands and of away mode succeed.
NextExpiry ==
    \/ Tick
    \/ \E target \in Zones \cup {"all"}, duration \in BoostDurations,
          delta \in BoostDeltas : BoostStart(target, duration, delta, {})
    \/ \E ok \in BOOLEAN : BoostFinish(ok, {})
    \/ NoAwayCall /\ PollStart
    \/ \E q \in {b \in WindowlessBatches : Len(b) = 1} : PollFetchOk(q, {})
    \/ PollApplyFinish(TRUE, {})
    \/ /\ NoAwayCall /\ boost.pc = "idle" /\ poll.pc = "idle"
       /\ awayLog = <<>>
       /\ \E z \in Zones : boost_until[z] # NoTime /\ now >= boost_until[z]
       /\ \E enabled \in BOOLEAN : AwayStart(enabled, {})
    \/ \E k \in 1..MaxAwayCalls : AwayFinish(k, TRUE, {})

ExpirySpec == InitRunning /\ [][NextExpiry]_vars

\* The zone lists get_zones returns when the installation holds any of the
\* zones.
PartialZoneLists ==
    [Zones -> {AbsentZone,
               [present |-> TRUE, auto_control_enabled |-> TRUE,
                climate |-> TRUE]}]

\* The telemetry responses that carry one command without a validity
\* window, for a zone id of any kind.
StrayBatches ==
    IF nextId <= MaxCommands
    THEN {<<PollCommand(nextId, z, 19, <<NoTime, NoTime>>)>> :
              z \in Zones \cup {UnknownZone}}
    ELSE {}

\* Commands and boosts that name any zone id, at one point in time, while
\* the zone list of the coordinator is replaced, between the calls, by lists
\* that hold any of the zones: every thermostat is there and takes every
\* write.
NextStray ==
    \/ \E exists \in BOOLEAN : StartTask(exists)
    \/ \E z \in Zones \cup {UnknownZone}, temp \in LiveTemps, vf \in ValidFroms :
          HandleSetpointMessage(z, temp, vf, NoTime)
    \/ \E c \in inflight : ApplyFinish(c, TRUE)
    \/ /\ AtOnce /\ inflight = {} /\ poll.pc = "idle" /\ boost.pc = "idle"
       /\ \E cfg \in PartialZoneLists : Refresh(cfg)
    \/ PollStart
    \/ \E q \in StrayBatches : PollFetchOk(q, {})
    \/ PollApplyFinish(TRUE, {})
    \/ \E target \in Zones \cup {UnknownZone, "all"}, duration \in BoostDurations,
          delta \in BoostDeltas : BoostStart(target, duration, delta, {})
    \/ BoostFinish(TRUE, {})

StraySpec == InitRunning /\ [][NextStray]_vars

\* Shutdown and restart of both channels: the handler subscribes and
\* unsubscribes, the telemetry sender is started and stopped, messages
\* arrive and timers fire in between; the telemetry responses carry no
\* setpoints.
NextShutdown ==
    \/ \E exists \in BOOLEAN : StartTask(exists)
    \/ AtOnce /\ Tick
    \/ AtOnce /\ \E ok \in BOOLEAN : AsyncSubscribe(ok)
    \/ AtOnce /\ AsyncUnsubscribe
    \/ AtOnce /\ \E z \in Zones, temp \in LiveTemps, vf \in ValidFroms,
                    vu \in ValidUntils : HandleSetpointMessage(z, temp, vf, vu)
    \/ AtOnce /\ \E c \in inflight, ok \in BOOLEAN : ApplyFinish(c, ok)
    \/ AtOnce /\ \E c \in timers : TimerFire(c)
    \/ AtOnce /\ StartTelemetrySender
    \/ AtOnce /\ StopTelemetrySender
    \/ AtOnce /\ TelemetryTimerFire
    \/ AtOnce /\ PollFetchFail
    \/ AtOnce /\ PollFetchOk(<<>>, {})

ShutdownSpec == InitRunning /\ [][NextShutdown]_vars

\* The telemetry sender and the poll channel once the entry is set up:
\* the tracker is started and stopped, fires, and the responses are taken.
NextTelemetry ==
    \/ Tick
    \/ StartTelemetrySender
    \/ StopTelemetrySender
    \/ TelemetryTimerFire
    \/ PollFetchFail
    \/ \E q \in PollBatches, missing \in SUBSET Zones : PollFetchOk(q, missing)
    \/ \E ok \in BOOLEAN, missing \in SUBSET Zones : PollApplyFinish(ok, missing)

\* The entry is set up and start_telemetry_sender has just been called: no
\* telemetry response was received yet.
InitTelemetrySender ==
    /\ InitRunningChannels
    /\ InitAway
    /\ eval = NoEval
    /\ events = EmptyBag
    /\ malformed = {}
    /\ telemetry_unsub = TRUE
    /\ telemetry_timer = 1
    /\ poll_period = TELEMETRY_INTERVAL
    /\ suggested = NoInterval
    /\ pollBy = "none"

TelemetrySpec == InitTelemetrySender /\ [][NextTelemetry]_vars

\* The telemetry sender started and stopped in any order at one point in
\* time, with its tracker firing and the responses carrying commands
\* without a validity window: every thermostat is there.
NextSender ==
    \/ StartTelemetrySender
    \/ StopTelemetrySender
    \/ TelemetryTimerFire
    \/ PollFetchFail
    \/ \E q \in WindowlessBatches : PollFetchOk(q, {})
    \/ \E ok \in BOOLEAN : PollApplyFinish(ok, {})

SenderSpec == InitTelemetrySender /\ [][NextSender]_vars

\* ----------------------------------------------------------------- claims

\* The commands whose service call is made in this step.
NewlyIssued == issued' \ issued

\* This step starts the _process_setpoint task of a message.
ProcessStep ==
    /\ ready # <<>>
    /\ Head(ready).kind = "process"
    /\ ready' = Tail(ready)

\* valid_until is set and lies before t.
Expired(c, t) == c.vu # NoTime /\ t > c.vu

\* No task and no service call of the handler is under way for the zone.
PushQuiet(z) ==
    /\ \A c \in inflight : c.zone # z
    /\ \A i \in 1..Len(ready) : ready[i].cmd.zone # z

\* How many acknowledgments the optimizer got for a command_id.
AckCount(cid) == Cardinality({i \in 1..Len(acks) : acks[i].command_id = cid})

\* C1: while a zone is boosted, a command that comes in for it, by push or
\* by poll, is not written to the thermostat, not stored as pending and
\* given no timer.
C1_BoostedZoneDropsCommands ==
    [][\A z \in Zones : is_boosted(z, now) =>
          /\ \A c \in NewlyIssued : c.src = "poll" => c.zone # z
          /\ (ProcessStep /\ Head(ready).cmd.zone = z) =>
                /\ pending_setpoints'[z] = pending_setpoints[z]
                /\ Head(ready).cmd \notin timers'
                /\ Head(ready).cmd \notin issued']_vars

\* C2: no command is written to the thermostat of a zone whose auto-control
\* flag is off when the service call is made, whichever channel brought the
\* command and also when its timer was armed while the flag was on.
C2_NoWriteWhenAutoControlOff ==
    [][\A c \in NewlyIssued :
          IF c.src = "push"
          THEN handler_zones[c.zone].auto_control
          ELSE zones[c.zone].auto_control_enabled]_vars

\* C3: a scheduled command that meets a command for its zone that is valid
\* on arrival has its timer cancelled and is never written.
C3_ValidCommandSupersedesScheduled ==
    \A a \in superseded : a \notin timers /\ a \notin issued

\* C4: when the service call of a command is made, its valid_from is absent
\* or reached.
C4_NoWriteBeforeValidFrom ==
    [][\A c \in NewlyIssued : c.vf = NoTime \/ now >= c.vf]_vars

\* C5: a command that is expired when it comes in is not written to the
\* thermostat, not stored as pending and given no timer, on either channel.
C5_ExpiredCommandDropped ==
    [][/\ \A c \in NewlyIssued : c.src = "poll" => ~Expired(c, now)
       /\ (ProcessStep /\ Expired(Head(ready).cmd, now)) =>
             /\ pending_setpoints' = pending_setpoints
             /\ Head(ready).cmd \notin timers'
             /\ Head(ready).cmd \notin issued']_vars

\* C6: a future-dated command that was given a timer is eventually written
\* to the thermostat, no earlier than its valid_from, is then the zone's
\* applied command and leaves the zone without a pending command, unless a
\* later message for the zone arrives.
C6_ScheduledEventuallyApplied ==
    \A z \in Zones : \A i \in 1..MaxCommands :
        (\E c \in timers : c.zone = z /\ c.id = i)
            ~> \/ /\ applied_setpoints[z].id = i
                  /\ applied_setpoints[z] \in written
                  /\ now >= applied_setpoints[z].vf
                  /\ pending_setpoints[z] = NoCmd
               \/ lastReceived[z] > i

\* A scheduled command that no later message followed was written at its
\* valid_from and is the applied command of its zone, which has no pending
\* command.
C6_Witness ==
    \E z \in Zones :
        /\ applied_setpoints[z] \in armed
        /\ applied_setpoints[z] \in written
        /\ applied_setpoints[z].vu = NoTime
        /\ now >= applied_setpoints[z].vf
        /\ lastReceived[z] = applied_setpoints[z].id
        /\ pending_setpoints[z] = NoCmd

\* C7: a zone has at most one live timer, the one whose handle is stored
\* for the zone.
C7_OneLiveTimerPerZone ==
    \A z \in Zones :
        /\ Cardinality(TimersOf(z)) <= 1
        /\ \A c \in TimersOf(z) : scheduled_unsubs[z] = c.id

\* A zone whose timer was replaced: the first is gone, the second is live.
C7_Witness ==
    \E a \in armed, b \in armed :
        /\ a.zone = b.zone
        /\ a.id < b.id
        /\ a \notin timers
        /\ a \notin issued
        /\ b \in timers

\* C8: once two commands without a validity window for one zone were both
\* written and nothing of the zone is under way, the thermostat shows the
\* temperature of the one received last, which is the applied command.
C8_LastReceivedWins ==
    \A z \in Zones : \A c1 \in written, c2 \in written :
        ( /\ c1.zone = z /\ c2.zone = z
          /\ c1.src = "push" /\ c2.src = "push"
          /\ c1.vf = NoTime /\ c1.vu = NoTime
          /\ c2.vf = NoTime /\ c2.vu = NoTime
          /\ c1.id < c2.id
          /\ lastReceived[z] = c2.id
          /\ lastWritten[z].src = "push"
          /\ PushQuiet(z) )
        => /\ applied_setpoints[z] = c2
           /\ actuator[z] = c2.temp

\* C9: when a poll cycle has ended, the optimizer has got exactly one
\* acknowledgment for each command_id of the response, applied exactly
\* when the write succeeded, and none for a push command.
C9_OneAcknowledgmentPerPolledCommand ==
    /\ poll.pc = "idle" =>
          \A c \in fetched : c.cid # 0 =>
              /\ AckCount(c.cid) = 1
              /\ \A i \in 1..Len(acks) : acks[i].command_id = c.cid =>
                    /\ acks[i].applied = (c \in written)
                    /\ ~acks[i].applied => acks[i].error_message # ""
    /\ \A i \in 1..Len(acks) : \E c \in fetched : acks[i].command_id = c.cid

\* C10: get_applied_setpoint of the coordinator returns the command last
\* written to the zone's thermostat, whichever channel brought it.
C10_AppliedIsLastWritten ==
    \A z \in Zones : coord_applied_setpoints[z] = lastWritten[z]

\* An async_set_away_mode call that was suspended returns in this step.
EnableEnds ==
    \E k \in 1..MaxAwayCalls :
        /\ away_calls[k].pc = "writing" /\ away_calls[k].enabled
        /\ away_calls'[k].pc = "idle"
DisableEnds ==
    \E k \in 1..MaxAwayCalls :
        /\ away_calls[k].pc = "writing" /\ ~away_calls[k].enabled
        /\ away_calls'[k].pc = "idle"

\* C11: away-mode round trip.  When set_away_mode(true) returns, with every
\* write made and no other call overlapping, every zone with a climate
\* entity is at its minimum temperature and the snapshot holds the setpoint
\* the zone had before (or nothing for it).  When the following
\* set_away_mode(false) returns, every such zone is back at the setpoint it
\* had before activation, or at the target temperature when none was saved
\* for it, the snapshot is empty and away mode is inactive.
C11_AwayRoundTrip ==
    [][/\ (EnableEnds /\ awayClean') =>
             /\ away_mode' /\ away_mode_since' # NoTime
             /\ \A z \in Zones : zones[z].climate =>
                    /\ actuator'[z] = MinTemp
                    /\ saved_setpoints'[z] \in {beforeAway[z], NoTemp}
       /\ (DisableEnds /\ awayClean') =>
             /\ ~away_mode' /\ away_mode_since' = NoTime
             /\ saved_setpoints' = [z \in Zones |-> NoTemp]
             /\ \A z \in Zones : zones[z].climate =>
                    actuator'[z] = (IF saved_setpoints[z] # NoTemp
                                    THEN beforeAway[z] ELSE TargetTemp)]_vars

\* Away mode was switched on and off again, and both zones are back at the
\* setpoints they had before.
C11_Witness ==
    /\ Len(awayLog) >= 2 /\ awayLog[1] /\ ~awayLog[2]
    /\ awayClean /\ NoAwayCall /\ ~away_mode
    /\ saved_setpoints = [z \in Zones |-> NoTemp]
    /\ \A z \in Zones : zones[z].climate /\ actuator[z] = beforeAway[z]
                          /\ actuator[z] \in AwayInitialTemps

\* This step is a call of async_set_away_mode with the value away mode has.
AwayCallInPlace ==
    /\ Len(awayLog') = Len(awayLog) + 1
    /\ awayLog'[Len(awayLog')] = away_mode

\* C12: set_away_mode(true) while away mode is active and
\* set_away_mode(false) while it is inactive write to no thermostat and
\* leave the flag, the timestamp, the snapshot and the running calls as
\* they are.
C12_AwayCallInPlaceIsNoOp ==
    [][AwayCallInPlace =>
          UNCHANGED <<actuator, away_mode, away_mode_since, saved_setpoints,
                      away_calls>>]_vars

\* Away mode was switched on twice in a row; the snapshot still holds the
\* setpoint a zone had before the first call, with the zone at its minimum.
C12_Witness ==
    /\ Len(awayLog) >= 2 /\ awayLog[1] /\ awayLog[2]
    /\ NoAwayCall /\ away_mode
    /\ \E z \in Zones :
          /\ saved_setpoints[z] # NoTemp /\ saved_setpoints[z] = beforeAway[z]
          /\ actuator[z] = MinTemp

\* C13: a boost with duration d and delta x of a zone whose thermostat reads
\* s calls the service with s + x; when the call returns the thermostat is
\* at s + x and boost_until is the time of the write plus d; and as long as
\* now < boost_until no command for the zone, from either channel, is
\* written.
C13_BoostRaisesAndBlocksCommands ==
    [][/\ (boost'.pc = "writing" /\ boost' # boost) =>
             boost'.temp = actuator'[Head(boost'.queue).zone] + boost'.delta
       /\ (boost.pc = "writing" /\ boost' # boost
              /\ boost_until' # boost_until) =>
             LET z == Head(boost.queue).zone IN
             /\ actuator'[z] = boost.temp
             /\ boost_until'[z] = now + boost.duration
             /\ \A t \in 0..(MaxTime + boost.duration) :
                    (boost_until'[z] # NoTime /\ t < boost_until'[z])
                        <=> t < now + boost.duration
       /\ \A z \in Zones : is_boosted(z, now) =>
             \A c \in NewlyIssued : c.zone # z]_vars

\* C14: for every window and reference time, the command is taken as not
\* yet valid (scheduled) exactly when valid_from is set and the reference
\* is before it, as expired (neither applied nor scheduled) exactly when
\* valid_until is set and the reference is after it, and as valid (applied)
\* otherwise, the boundaries reference = valid_from and reference =
\* valid_until included.
C14_ValidityEvaluator ==
    eval.out # "unset" =>
        LET early == eval.vf # NoTime /\ eval.ref < eval.vf
            late  == eval.vu # NoTime /\ eval.ref > eval.vu
        IN  /\ eval.out = "schedule" <=> early
            /\ eval.out = "drop" <=> late
            /\ eval.out = "apply" <=> (~early /\ ~late)

\* Two deliveries of one command: the same zone, temperature and window.
SameCommand(a, b) ==
    /\ a.zone = b.zone /\ a.temp = b.temp /\ a.vf = b.vf /\ a.vu = b.vu
    /\ a.src = b.src

\* The push command c was delivered twice to zone z, valid now both times
\* and written both times, nothing else was taken for the zone, and no task
\* of the zone is under way.
DeliveredTwice(z, c1, c2) ==
    /\ c1.zone = z /\ c1.src = "push" /\ c1.id < c2.id /\ SameCommand(c1, c2)
    /\ c1 \notin armed /\ c2 \notin armed
    /\ lastReceived[z] = c2.id
    /\ PushQuiet(z)
    /\ \A c \in issued \cup armed : c.zone = z => c \in {c1, c2}

\* C15: after the same valid-now command was delivered twice for a zone
\* and written, the zone is as after one delivery: the thermostat holds the
\* command's temperature, the applied command is that command, and no
\* pending command and no timer is left.
C15_DuplicateDeliveryIdempotent ==
    \A z \in Zones : \A c1 \in written, c2 \in written :
        DeliveredTwice(z, c1, c2) =>
            /\ actuator[z] = c2.temp
            /\ applied_setpoints[z] # NoCmd
            /\ SameCommand(applied_setpoints[z], c2)
            /\ pending_setpoints[z] = NoCmd
            /\ TimersOf(z) = {}

\* A command was delivered twice and written twice.
C15_Witness ==
    \E z \in Zones : \E c1 \in written, c2 \in written :
        DeliveredTwice(z, c1, c2) /\ actuator[z] = c2.temp

\* C16: after every poll fetch the period of the telemetry tracker is the
\* interval the last successful response suggested, or TELEMETRY_INTERVAL
\* when no fetch has succeeded; a failed fetch changes nothing of it and
\* the tracker stays live.
C16_PollPeriodFollowsServer ==
    /\ (telemetry_timer > 0 /\ poll.pc # "fetching") =>
           poll_period = (IF suggested = NoInterval THEN TELEMETRY_INTERVAL
                          ELSE suggested)
    /\ telemetry_unsub => telemetry_timer > 0

\* The apply attempts that have ended: the service call was made and is
\* no longer awaited.
EndedAttempts ==
    (issued \ inflight) \
        (IF poll.pc = "writing" THEN {Head(poll.queue)} ELSE {})

\* The number of events fired for a command.
EventsOf(c) == CopiesIn(AppliedEvent(c), events)

\* C17: every apply attempt that has ended, with the write done or
\* rejected, has fired exactly one event, and every event belongs to an
\* apply attempt that has ended.
C17_OneEventPerApply ==
    /\ \A c \in EndedAttempts : EventsOf(c) = 1
    /\ \A e \in BagToSet(events) : \E c \in EndedAttempts : e = AppliedEvent(c)

\* The commands the handler holds or has acted on.
HandledCommands ==
    issued \cup armed \cup timers \cup
    ({pending_setpoints[z] : z \in Zones} \ {NoCmd}) \cup
    ({applied_setpoints[z] : z \in Zones} \ {NoCmd})

\* C18: a push message whose payload does not parse (no JSON, no
\* temperature_c, or a validity timestamp that is no datetime) is
\* discarded: no service call, no timer, and no pending or applied command
\* comes of it.
C18_UnparsablePayloadDiscarded ==
    \A c \in HandledCommands : c.id \notin malformed

\* The handler has no subscription and no stored timer handle.
NothingToCancel == ~subscribed /\ \A z \in Zones : scheduled_unsubs[z] = 0

\* A scheduled command reaches a thermostat in this step.
ScheduledWrite == (written' \ written) \cap armed # {}

\* The interval tracker starts an async_send_telemetry in this step.
TimerPoll == poll.pc = "idle" /\ poll'.pc = "fetching" /\ pollBy' = "timer"

\* C19: once async_unsubscribe has returned and until the handler
\* subscribes again, no timer of a scheduled command is live and no
\* scheduled command is written to a thermostat; async_unsubscribe with
\* nothing subscribed and nothing scheduled changes nothing; and once
\* stop_telemetry_sender has returned no tracker is live and the tracker
\* starts no poll.
C19_ShutdownCancelsTimers ==
    /\ [](~subscribed => timers = {})
    /\ [](~telemetry_unsub => telemetry_timer = 0)
    /\ [][/\ (~subscribed /\ ~subscribed') => ~ScheduledWrite
          /\ (NothingToCancel /\ AsyncUnsubscribe) => UNCHANGED vars
          /\ TimerPoll => telemetry_unsub]_vars

\* An async_set_away_mode call starts or goes on in this step.
AwayStep == awayLog' # awayLog \/ away_calls' # away_calls

\* The setpoints of a list.
SetpointsIn(q) == {q[i] : i \in DOMAIN q}

\* The poll loop passes over the setpoint c in this step: c was fetched,
\* no service call is made for it, and the loop is beyond it.
PassedOver(c) ==
    /\ c \in fetched' /\ c \notin issued' /\ c \notin SetpointsIn(poll'.queue)
    /\ c \notin fetched \/ c \in SetpointsIn(poll.queue)

\* A valid command for a zone with a thermostat that is auto-controlled
\* and not boosted.
Eligible(c) ==
    /\ c.zone \in Zones
    /\ zones[c.zone].present /\ zones[c.zone].climate
    /\ zones[c.zone].auto_control_enabled
    /\ ~is_boosted(c.zone, now)
    /\ is_valid_now(c, now)

\* C20: a step of async_set_away_mode changes no zone's auto-control flag
\* and no boost_until, and while away mode is active the poll loop passes
\* over no valid command of a non-boosted, auto-controlled zone: the
\* service call is made for it.
C20_AwayModeIsNoVeto ==
    [][/\ AwayStep => /\ zones' = zones
                      /\ handler_zones' = handler_zones
                      /\ boost_until' = boost_until
       /\ \A c \in fetched' : (away_mode /\ PassedOver(c)) => ~Eligible(c)]_vars

\* Away mode is on, its call is over and set zone z to the minimum from
\* what the thermostat showed at start, and a command written afterwards
\* is what the thermostat of z shows.
C20_Witness ==
    \E z \in Zones :
        /\ away_mode /\ NoAwayCall
        /\ saved_setpoints[z] \in InitialTemps
        /\ lastWritten[z] # NoCmd
        /\ actuator[z] = lastWritten[z].temp
        /\ actuator[z] # MinTemp
        /\ ~is_boosted(z, now) /\ boost.pc = "idle"

\* The service call is made for the scheduled command c in this step.
ScheduledIssue(c) == c \in armed /\ c \in issued' /\ c \notin issued

\* C21: when the timer of a scheduled command has fired, the service call
\* is made for the command only if it is valid at that time; a command
\* that has expired by then is dropped without a write.
C21_TimerRevalidates ==
    [][\A c \in armed : ScheduledIssue(c) => is_valid_now(c, now)]_vars

\* C22: when no task and no service call of the handler is under way for
\* a zone, the zone has a pending command exactly when a timer of that
\* command is live, and the zone has no timer of any other command.
C22_PendingIffLiveTimer ==
    \A z \in Zones :
        PushQuiet(z) =>
            /\ pending_setpoints[z] # NoCmd <=> pending_setpoints[z] \in timers
            /\ TimersOf(z) \subseteq {pending_setpoints[z]}

\* 1 when the running coroutine co awaits a service call for zone z.
Awaits(co, z) ==
    IF co.pc = "writing" /\ Head(co.queue).zone = z THEN 1 ELSE 0

\* The operations on zone z that are between their checks and the return
\* of their service call: applies of the handler, the poll loop, boost and
\* the away-mode calls.
OpsOn(z) ==
    Cardinality({c \in inflight : c.zone = z}) + Awaits(poll, z)
        + Awaits(boost, z)
        + Cardinality({k \in 1..MaxAwayCalls : Awaits(away_calls[k], z) = 1})

\* C23: the operations on one zone do not interleave: at most one of
\* them is between its checks and the return of its service call; and so
\* no command is written to a zone whose boost was written while the
\* command was under way.
C23_NoInterleavingPerZone ==
    /\ [](\A z \in Zones : OpsOn(z) <= 1)
    /\ [][\A c \in written' \ written : ~is_boosted(c.zone, now)]_vars

\* C24: a command that was scheduled before its zone was boosted and
\* whose timer fires while the zone is boosted is not written: no service
\* call is made for it, also when it is within its validity window.
C24_BoostBeatsEarlierScheduled ==
    [][\A c \in armed :
          (ScheduledIssue(c) /\ is_valid_now(c, now)) =>
              ~is_boosted(c.zone, now)]_vars

\* Nothing is under way or waiting for the push command c.
NotRetried(c) ==
    /\ c \notin inflight' /\ c \notin timers'
    /\ \A i \in 1..Len(ready') : ready'[i].cmd # c

\* What a failed apply of the handler leaves as it was.
HandlerUntouched ==
    /\ applied_setpoints' = applied_setpoints
    /\ actuator' = actuator
    /\ events' = events
    /\ written' = written

\* The task started in this step is an apply that ends before the service
\* call: the zone has no climate entity configured or hass.states does not
\* know it.
ApplyEndsEarly ==
    /\ ready # <<>> /\ ready' = Tail(ready)
    /\ Head(ready).cmd \notin issued'
    /\ Head(ready).kind = "apply" \/ is_valid_now(Head(ready).cmd, now)

WithClimate(q) == SelectSeq(q, LAMBDA e : e.climate)

\* C26: boost_until of a zone changes only in the step in which the boost's
\* service call for that zone returns with the thermostat at the boost
\* temperature; after a service call of a boost has returned or raised, the
\* loop goes on with the next zone that has a climate entity; and the poll
\* loop passes over no valid command of an auto-controlled zone with a
\* thermostat that is not boosted.
C26_BoostMarksOnlyOnSuccess ==
    [][/\ \A z \in Zones :
             boost_until'[z] # boost_until[z] =>
                 /\ boost.pc = "writing"
                 /\ Head(boost.queue) = [zone |-> z, climate |-> TRUE]
                 /\ actuator'[z] = boost.temp
                 /\ boost_until'[z] = now + boost.duration
       /\ (boost.pc = "writing" /\ boost' # boost) =>
             LET rest == WithClimate(Tail(boost.queue)) IN
             IF rest = <<>> THEN boost'.pc = "idle"
             ELSE boost'.pc = "writing" /\ Head(boost'.queue) = Head(rest)
       /\ \A c \in fetched' : PassedOver(c) => ~Eligible(c)]_vars

\* A boost of all zones is over: the first zone has a climate entity and
\* was not boosted, the thermostat shows a command written to it, and the
\* zone after it is boosted.
C26_Witness ==
    /\ nBoosts > 0 /\ boost.pc = "idle"
    /\ zones[ZoneOrder[1]].climate
    /\ boost_until[ZoneOrder[1]] = NoTime
    /\ lastWritten[ZoneOrder[1]] # NoCmd
    /\ actuator[ZoneOrder[1]] = lastWritten[ZoneOrder[1]].temp
    /\ is_boosted(ZoneOrder[2], now)

\* The setpoints of a list, in its order, that reach the service call when
\* every thermostat is there.
Accepted(q) == SelectSeq(q, LAMBDA c : CoordAccepts(c, {}))

\* q is what is left of the list p from some position on.
IsSuffix(q, p) ==
    /\ Len(q) <= Len(p)
    /\ \A i \in 1..Len(q) : q[i] = p[Len(p) - Len(q) + i]

\* C27: when the service call of a setpoint of a telemetry response has
\* returned or raised, the loop goes on, in the order of the list, with
\* the next setpoint that is not rejected; the service calls are made in
\* the order of the list; and a telemetry request that fails makes no
\* service call and changes nothing of any zone.
C27_FailuresContainedPerCommand ==
    [][/\ (poll.pc = "writing" /\ poll' # poll) =>
             /\ IsSuffix(poll'.queue, Tail(poll.queue))
             /\ IF Accepted(Tail(poll.queue)) = <<>>
                THEN poll'.pc = "idle"
                ELSE /\ poll'.pc = "writing"
                     /\ Head(poll'.queue) = Head(Accepted(Tail(poll.queue)))
       /\ \A c \in NewlyIssued : \A d \in issued : d.id < c.id
       /\ (poll.pc = "fetching" /\ poll'.pc = "idle" /\ fetched' = fetched) =>
             /\ issued' = issued /\ written' = written
             /\ actuator' = actuator
             /\ coord_applied_setpoints' = coord_applied_setpoints
             /\ boost_until' = boost_until
             /\ zones' = zones
             /\ events' = events]_vars

\* The service call of a setpoint raised, and the service call of the
\* setpoint after it is under way.
C27_Witness ==
    \E c \in issued \ written :
        /\ poll.pc = "writing"
        /\ Head(poll.queue).id = c.id + 1
        /\ EventsOf(c) = 0
        /\ coord_applied_setpoints[c.zone] # c

\* What the handler and the coordinator keep for a zone, and what its
\* thermostat shows.
ZoneState(z) ==
    <<pending_setpoints[z], TimersOf(z), scheduled_unsubs[z],
      applied_setpoints[z], coord_applied_setpoints[z], boost_until[z],
      actuator[z]>>

\* The zones of the command or boost this step works on: the task that
\* starts, the service call that ends, the timer that fires or is
\* cancelled.
OperatedOn ==
    (IF ready # <<>> /\ ready' = Tail(ready)
     THEN {Head(ready).cmd.zone} ELSE {}) \cup
    {c.zone : c \in inflight \ inflight'} \cup
    {c.zone : c \in timers \ timers'} \cup
    (IF poll.pc = "writing" /\ poll' # poll
     THEN {Head(poll.queue).zone} ELSE {}) \cup
    (IF boost.pc = "writing" /\ boost' # boost
     THEN {Head(boost.queue).zone} ELSE {})

\* C28: a step that receives, schedules, applies or drops a command of a
\* zone, or boosts a zone, works on one zone and changes the pending
\* command, the timer, the applied command, boost_until and the
\* thermostat of no other zone.
C28_ZonesIndependent ==
    [][/\ Cardinality(OperatedOn) <= 1
       /\ \A z \in Zones :
             ZoneState(z)' # ZoneState(z) => z \in OperatedOn]_vars

\* One zone holds a scheduled command with its timer and is not boosted,
\* while a command received later for another zone was written and that
\* zone was boosted.
C28_Witness ==
    \E z1 \in Zones, z2 \in Zones :
        /\ z1 # z2
        /\ pending_setpoints[z1] \in timers
        /\ boost_until[z1] = NoTime
        /\ applied_setpoints[z2] \in written
        /\ pending_setpoints[z1].id < applied_setpoints[z2].id
        /\ boost_until[z2] # NoTime

\* The push command c1 was scheduled, and the same command came again before
\* its valid_from and was scheduled as c2.  Its window is not empty, so
\* that it is scheduled only when it comes before valid_from.
Redelivered(c1, c2) ==
    /\ c1 \in armed /\ c2 \in armed
    /\ c1.src = "push" /\ c1.id < c2.id /\ SameCommand(c1, c2)
    /\ c1.vu = NoTime \/ c1.vf <= c1.vu

\* C29: when a future-dated command was scheduled and came again before its
\* valid_from, the timer of the earlier delivery is cancelled and never
\* leads to a service call, and the later delivery is written at most once
\* and not before valid_from.
C29_RedeliveryWritesOnce ==
    \A c1 \in armed, c2 \in armed :
        Redelivered(c1, c2) =>
            /\ c1 \notin timers
            /\ c1 \notin issued
            /\ EventsOf(c1) = 0
            /\ EventsOf(c2) <= 1
            /\ c2 \in issued => now >= c2.vf
            /\ Cardinality({c \in TimersOf(c2.zone) : SameCommand(c, c2)}) <= 1

\* A future-dated command was delivered twice before its valid_from, and
\* the write of the second delivery is the only one made.
C29_Witness ==
    \E c1 \in armed, c2 \in armed :
        /\ Redelivered(c1, c2)
        /\ c2 \in written
        /\ EventsOf(c2) = 1
        /\ actuator[c2.zone] = c2.temp
        /\ applied_setpoints[c2.zone] = c2
        /\ \A c \in written : c = c2

\* What the handler holds of commands, and the thermostats.
HandlerHoldings ==
    <<pending_setpoints, applied_setpoints, timers, scheduled_unsubs, ready,
      inflight, actuator>>

\* C30: after an async_subscribe call that returned False the handler is
\* not subscribed, and the call changed nothing of the pending commands,
\* the applied commands and the timers; the handler is subscribed only
\* after a call that returned True, becomes subscribed only in such a call
\* and stops being subscribed only when async_unsubscribe clears the
\* handles; push commands are taken only while it is subscribed.
C30_SubscribeFailureNonFatal ==
    /\ [](subscribe_returned = "False" => ~subscribed)
    /\ [](subscribed => subscribe_returned = "True")
    /\ [][/\ (subscribe_returned' = "False" /\ subscribe_returned # "False") =>
               /\ ~subscribed'
               /\ HandlerHoldings' = HandlerHoldings
          /\ (~subscribed /\ subscribed') =>
               /\ subscribe_returned' = "True"
               /\ HandlerHoldings' = HandlerHoldings
          /\ (subscribed /\ ~subscribed') =>
               /\ \A z \in Zones : scheduled_unsubs'[z] = 0
               /\ timers' \subseteq timers
               /\ pending_setpoints' = pending_setpoints
               /\ applied_setpoints' = applied_setpoints
          /\ lastReceived' # lastReceived => subscribed]_vars

\* The handler was subscribed and wrote a command, was unsubscribed, and
\* the async_subscribe call after that returned False: it is not
\* subscribed and holds the applied command as before.
C30_Witness ==
    /\ subscribe_returned = "False"
    /\ ~subscribed
    /\ \E z \in Zones :
          /\ applied_setpoints[z] \in written
          /\ actuator[z] = applied_setpoints[z].temp

\* C31: once every async_set_away_mode call has returned, the away state
\* is consistent: with away mode inactive the snapshot is empty, the
\* timestamp is unset and no zone is left at the away minimum; with away
\* mode active the timestamp is set and the snapshot holds, for every zone
\* with a climate entity, the setpoint it had before.
C31_AwayStateConsistent ==
    (NoAwayCall /\ awayLog # <<>>) =>
        IF away_mode
        THEN /\ away_mode_since # NoTime
             /\ \A z \in Zones : zones[z].climate =>
                    saved_setpoints[z] = beforeAway[z]
        ELSE /\ away_mode_since = NoTime
             /\ saved_setpoints = [z \in Zones |-> NoTemp]
             /\ \A z \in Zones : zones[z].climate => actuator[z] # MinTemp

\* How many boosts of zone z have been written when each call boosts every
\* zone: every call made, less the one whose loop has not passed z.
BoostsDone(z) ==
    IF ~zones[z].climate THEN 0
    ELSE IF boost.pc = "writing"
               /\ \E i \in 1..Len(boost.queue) : boost.queue[i].zone = z
         THEN nBoosts - 1 ELSE nBoosts

\* C32: boosts stack.  A boost reads the setpoint the thermostat has, also
\* when the zone is boosted, and calls the service with that plus the
\* delta; when the call returns boost_until is the time of that write plus
\* the duration, whatever it was; and after n boosts with delta x of a zone
\* that nothing else writes to the thermostat is at s + n * x.  The
\* setpoints s at start differ by an odd amount and the delta is even, so
\* that s + n * x is reached from one s and with one n only.
C32_BoostsStack ==
    /\ [](\A z \in Zones : \E s \in AwayInitialTemps, x \in BoostDeltas :
             actuator[z] = s + BoostsDone(z) * x)
    /\ [][/\ (boost'.pc = "writing" /\ boost' # boost) =>
               boost'.temp =
                   actuator'[Head(boost'.queue).zone] + boost'.delta
          /\ (boost.pc = "writing" /\ boost' # boost) =>
               /\ actuator'[Head(boost.queue).zone] = boost.temp
               /\ boost_until'[Head(boost.queue).zone] =
                      now + boost.duration]_vars

\* A zone was boosted twice, the second time while it was boosted and later
\* than the first: it is two deltas above where it started and boost_until
\* is the time of the second boost plus its duration.
C32_Witness ==
    \E z \in Zones : \E s \in AwayInitialTemps, x \in BoostDeltas,
                      d \in BoostDurations :
        /\ boost.pc = "idle" /\ nBoosts = 2
        /\ actuator[z] = s + 2 * x
        /\ boost_until[z] = now + d
        /\ now > 0

\* The boost of zone z runs out in this step: the time reaches boost_until.
Expires(z) ==
    /\ boost_until[z] # NoTime
    /\ now < boost_until[z] /\ now' >= boost_until[z]

\* A write to the thermostat of zone z ends in this step: of a command, of
\* a boost or of an away-mode call.
WriteEnds(z) ==
    \/ poll.pc = "writing" /\ poll' # poll /\ Head(poll.queue).zone = z
    \/ boost.pc = "writing" /\ boost' # boost /\ Head(boost.queue).zone = z
    \/ \E k \in 1..MaxAwayCalls :
          /\ away_calls[k].pc = "writing" /\ away_calls'[k] # away_calls[k]
          /\ Head(away_calls[k].queue).zone = z

\* C33: boost expiry is passive.  In the step in which the time reaches
\* boost_until of a zone nothing but the time changes, and from then on
\* is_boosted is false for the zone; boost_until keeps an entry once it has
\* one; the thermostat changes only when a write of a command, a boost or
\* an away-mode call ends; and the poll loop passes over no valid command
\* of an auto-controlled zone whose boost has run out.
C33_BoostExpiryPassive ==
    [][/\ \A z \in Zones :
             /\ Expires(z) =>
                   /\ UNCHANGED <<nextId, actuator, handlerVars, coordVars,
                                  histVars, restVars>>
                   /\ ~is_boosted(z, now')
             /\ boost_until[z] # NoTime => boost_until'[z] # NoTime
             /\ actuator'[z] # actuator[z] => WriteEnds(z)
       /\ \A c \in fetched' : PassedOver(c) => ~Eligible(c)]_vars

\* The boost of a zone has run out: the zone keeps its boost_until entry
\* and the boosted setpoint, and is not boosted.
C33_Witness ==
    \E z \in Zones : \E s \in InitialTemps, x \in BoostDeltas :
        /\ boost_until[z] # NoTime /\ now >= boost_until[z]
        /\ ~is_boosted(z, now)
        /\ actuator[z] = s + x
        /\ boost.pc = "idle" /\ poll.pc = "idle" /\ NoAwayCall

\* The service call of a push command of zone z returns in this step.
PushWriteEnds(z) == \E c \in inflight \ inflight' : c.zone = z

\* The commands the handler holds a task, a service call or a timer for.
HandlerCommands ==
    {ready[i].cmd : i \in 1..Len(ready)} \cup inflight \cup timers

\* C34: a command or a boost for a zone id that the configuration does not
\* hold is dropped.  The handler holds no task, service call or timer of a
\* command whose zone id it does not know; no service call is made for a
\* command of an unknown zone id, nor for a polled command of a zone that
\* the zone list does not hold; a boost call goes on with zones of the list
\* only; and the thermostat, boost_until and the applied command of a zone
\* change only when a write to that zone ends.
C34_UnknownZoneDropped ==
    /\ [](\A c \in HandlerCommands : c.zone \in Zones)
    /\ [][/\ \A c \in NewlyIssued :
                /\ c.zone \in Zones
                /\ c.src = "poll" => zones[c.zone].present
          /\ (boost.pc = "idle" /\ boost'.pc = "writing") =>
                \A i \in 1..Len(boost'.queue) :
                    zones[boost'.queue[i].zone].present
          /\ \A z \in Zones :
                (\/ actuator'[z] # actuator[z]
                 \/ boost_until'[z] # boost_until[z]
                 \/ coord_applied_setpoints'[z] # coord_applied_setpoints[z]
                 \/ applied_setpoints'[z] # applied_setpoints[z])
                    => (WriteEnds(z) \/ PushWriteEnds(z))]_vars

\* A polled command of a zone id outside the zone list was fetched and
\* passed over, a pushed message of an unknown zone id was handled, and a
\* boost that named a zone outside the list returned: nothing was written
\* and nothing is held.
C34_Witness ==
    /\ \E c \in fetched : c.zone \notin Zones \/ ~zones[c.zone].present
    /\ nextId - 1 > Cardinality(fetched)
    /\ lastReceived = [z \in Zones |-> 0]
    /\ nBoosts > 0 /\ boost.pc = "idle" /\ poll.pc = "idle"
    /\ \E z \in Zones : zones[z].present
    /\ ready = <<>> /\ inflight = {} /\ timers = {}
    /\ issued = {}
    /\ actuator \in [Zones -> InitialTemps]
    /\ boost_until = [z \in Zones |-> NoTime]
    /\ pending_setpoints = [z \in Zones |-> NoCmd]
    /\ applied_setpoints = [z \in Zones |-> NoCmd]
    /\ coord_applied_setpoints = [z \in Zones |-> NoCmd]

\* An async_send_telemetry task made outside the interval tracker starts in
\* this step.
CalledPoll == poll.pc = "idle" /\ poll'.pc = "fetching" /\ pollBy' = "call"

\* C35: at most one interval tracker is live, and one is live exactly when
\* a handle is stored.  A tracker is armed only by a start with no handle
\* stored, which stores the handle; a tracker is cancelled only by a stop
\* with a handle stored, which forgets the handle and leaves no tracker; and
\* where telemetry is sent by the sender alone, a poll outside the tracker
\* starts only in the step that arms the tracker.
C35_OneTelemetryTimer ==
    /\ [](telemetry_timer = (IF telemetry_unsub THEN 1 ELSE 0))
    /\ [][/\ telemetry_timer' > telemetry_timer =>
                ~telemetry_unsub /\ telemetry_unsub' /\ telemetry_timer' = 1
          /\ telemetry_timer' < telemetry_timer =>
                telemetry_unsub /\ ~telemetry_unsub' /\ telemetry_timer' = 0
          /\ CalledPoll => telemetry_timer' > telemetry_timer]_vars

\* The sender was stopped and started again: one tracker is live and the
\* initial poll of the start is under way.
C35_Witness ==
    /\ telemetry_unsub /\ telemetry_timer = 1
    /\ poll.pc = "fetching" /\ pollBy = "call"


====
